---- MODULE Spec2Model ----
(***************************************************************************)
(* Introspection and change-analysis engine of the API documentation       *)
(* generator:                                                              *)
(*   - SemanticVersionManager.analyzeChanges, _detectModifications,        *)
(*     _hasResponseSchemaChanged and bumpVersion;                          *)
(*   - RouteReflector._cleanPath, _extractPathParameters, extractRoutes,   *)
(*     _walkStack, _processRoute;                                          *)
(*   - DocumentationBuilder.buildDocumentation, _buildRouteDocumentation,  *)
(*     _createMinimalDoc, and ASTAnalyzer.analyzeCode as far as its        *)
(*     try/catch decides what the builder receives;                        *)
(*   - ASTAnalyzer._analyzeFunctionNode with its member- and               *)
(*     call-expression visitors and the shape abstraction;                 *)
(*   - GeminiEnhancer.enhanceEndpoint, _callGeminiWithRetry and            *)
(*     enhanceBatch;                                                       *)
(*   - DatabaseConnection.connect and disconnect.                          *)
(*                                                                         *)
(* JavaScript values are represented as follows.                           *)
(*   - A field that may be undefined/null is an option: None (<<>>) when   *)
(*     it is absent, Some(v) (<<v>>) when it holds v.                      *)
(*   - A template string is kept as the record or tuple of its parts, so   *)
(*     `${m} ${p}` is <<m, " ", p>>.  HTTP methods hold neither ' ' nor    *)
(*     ':', so the concatenation is as injective as the tuple.             *)
(*   - A character string that the code parses (a version) is a sequence   *)
(*     of one-character strings; so is every route path and pattern source.*)
(***************************************************************************)
EXTENDS Integers, Sequences, FiniteSets, TLC

VARIABLES
    oldDocs,        \* analyzeChanges: the previous snapshot (argument)
    newDocs,        \* analyzeChanges: the current snapshot (argument)
    pc,             \* "ready" | "returned" | "threw"
    analysis,       \* the object analyzeChanges returned
    compared,       \* keys handed to _detectModifications, in call order
    prevDoc,        \* _detectModifications: oldDoc argument
    currDoc,        \* _detectModifications: newDoc argument
    dpc,            \* "ready" | "returned" | "threw"
    detected,       \* the object _detectModifications returned
    currentVersion, \* bumpVersion: currentVersion argument
    bumpType,       \* bumpVersion: bumpType argument
    bpc,            \* "ready" | "returned"
    newVersion,     \* option: the string bumpVersion returned, None for null
    rawPath,        \* _cleanPath: path argument
    cleaned,        \* option: _cleanPath(rawPath)
    recleaned,      \* option: _cleanPath applied to its own result
    routeParameters,\* option: _extractPathParameters of the cleaned path
    ppc,            \* "ready" | "cleaned"
    app,            \* extractRoutes / buildDocumentation: app argument
    routes,         \* RouteReflector.routes
    wpc,            \* "ready" | "returned" | "threw"
    schemaDir,      \* what the schema directory holds for a route name
    documentation,  \* buildDocumentation: the documentation array
    visited,        \* number of routes the for...of loop has been through
    caught,         \* indexes of the routes whose assembly raised
    docpc,          \* "start" | "building" | "returned" | "threw"
    fnNode,         \* option: the function node handed to _analyzeFunctionNode
    fnAnalysis,     \* option: the analysis _analyzeFunctionNode returned
    apc,            \* "idle" | "returned"
    enabled,        \* GeminiEnhancer.enabled
    maxRetries,     \* option: GeminiEnhancer.maxRetries
    retryDelay,     \* option: GeminiEnhancer.retryDelay
    givenDoc,       \* option: enhanceEndpoint's doc argument, its own fields
    examples,       \* the object doc.examples refers to, as it is now
    givenExamples,  \* the same object as it was when the call was made
    enhanced,       \* option: the local copy enhanced, its own fields
    step,           \* index in Steps of the generation step enhanceEndpoint is at
    attempt,        \* _callGeminiWithRetry: the loop variable
    invoked,        \* generateContent calls of this _callGeminiWithRetry
    waits,          \* the delays this _callGeminiWithRetry awaited, in order
    settledWith,    \* option: what enhanceEndpoint's promise resolved to
    epc,            \* "idle" | "running" | "returned"
    batchDocs,      \* enhanceBatch: the docs argument
    concurrency,    \* enhanceBatch: options.concurrency
    skipExisting,   \* enhanceBatch: options.skipExisting
    cursor,         \* enhanceBatch: the loop variable i
    units,          \* the promises of the current batch: [index in docs, status, value]
    batchOutput,    \* enhanceBatch: the results array
    handed,         \* index in docs -> number of promises made for it
    qpc,            \* "idle" | "loop" | "awaiting" | "delaying" | "returned" | "threw"
    isConnected,    \* DatabaseConnection.isConnected
    connection,     \* option: DatabaseConnection.connection, None for null
    connectCalls,   \* mongoose.connect calls made by the latest connect()
    dbOutcomes,     \* how the operations on the connection ended, in order
    cpc             \* "idle" | "connecting" | "returned" | "threw"

astVars == <<fnNode, fnAnalysis, apc>>
enhancerVars == <<enabled, maxRetries, retryDelay>>
enhanceVars == <<givenDoc, examples, givenExamples, enhanced, step, attempt,
                 invoked, waits, settledWith, epc>>
batchVars == <<batchDocs, concurrency, skipExisting, cursor, units,
               batchOutput, handed, qpc>>
dbVars == <<isConnected, connection, connectCalls, dbOutcomes, cpc>>
serviceVars == <<astVars, enhancerVars, enhanceVars, batchVars, dbVars>>

vars == <<oldDocs, newDocs, pc, analysis, compared,
          prevDoc, currDoc, dpc, detected,
          currentVersion, bumpType, bpc, newVersion,
          rawPath, cleaned, recleaned, routeParameters, ppc,
          app, routes, wpc,
          schemaDir, documentation, visited, caught, docpc,
          serviceVars>>

analyzeVars == <<oldDocs, newDocs, pc, analysis, compared>>
detectVars == <<prevDoc, currDoc, dpc, detected>>
bumpVars == <<currentVersion, bumpType, bpc, newVersion>>
pathVars == <<rawPath, cleaned, recleaned, routeParameters, ppc>>
walkVars == <<app, routes, wpc>>
buildVars == <<schemaDir, documentation, visited, caught, docpc>>

-----------------------------------------------------------------------------
(* Options and sequence helpers *)

None == <<>>
Some(v) == <<v>>
IsSome(o) == o # <<>>
Get(o) == o[1]

Range(s) == {s[i] : i \in 1..Len(s)}

\* Array.prototype.includes / Set.prototype.has on a list
Includes(s, x) == \E i \in 1..Len(s) : s[i] = x

\* new Set(list) iterated: first occurrences, in insertion order
RECURSIVE SetOf(_)
SetOf(s) ==
    IF s = <<>> THEN <<>>
    ELSE LET init == SetOf(SubSeq(s, 1, Len(s) - 1))
             last == s[Len(s)]
         IN  IF Includes(init, last) THEN init ELSE Append(init, last)

\* params.map(p => p.name)
Names(params) == [i \in 1..Len(params) |-> params[i].name]

-----------------------------------------------------------------------------
(* Documentation records *)

\* `${doc.method}:${doc.path}`
Key(doc) == <<doc.method, ":", doc.path>>

\* `${doc.method} ${doc.path}`
Label(doc) == <<doc.method, " ", doc.path>>

\* new Map(docs.map(doc => [key, doc])): a list of {key, value} entries in
\* first-insertion order; a repeated key keeps its place and takes the later value
RECURSIVE DocMap(_)
DocMap(docs) ==
    IF docs = <<>> THEN <<>>
    ELSE LET init == DocMap(SubSeq(docs, 1, Len(docs) - 1))
             doc  == docs[Len(docs)]
         IN  IF \E i \in 1..Len(init) : init[i].key = Key(doc)
             THEN [i \in 1..Len(init) |->
                      IF init[i].key = Key(doc)
                      THEN [key |-> Key(doc), value |-> doc] ELSE init[i]]
             ELSE Append(init, [key |-> Key(doc), value |-> doc])

MapHas(map, key) == \E i \in 1..Len(map) : map[i].key = key
MapGet(map, key) == map[CHOOSE i \in 1..Len(map) : map[i].key = key].value

-----------------------------------------------------------------------------
(* SemanticVersionManager._hasResponseSchemaChanged *)

\* schema.properties ? Object.keys(schema.properties) : []
SchemaProps(schema) ==
    IF IsSome(schema.properties) THEN Get(schema.properties) ELSE <<>>

\* Slip: the loop tests the properties that were kept, not those that were removed
_hasResponseSchemaChangedOnKept(oldSchema, newSchema) ==
    IF ~IsSome(oldSchema) /\ ~IsSome(newSchema) THEN FALSE
    ELSE IF ~IsSome(oldSchema) \/ ~IsSome(newSchema) THEN TRUE
    ELSE LET oldProps == SchemaProps(Get(oldSchema))
             newProps == SchemaProps(Get(newSchema))
         IN  \E i \in 1..Len(oldProps) : Includes(newProps, oldProps[i])

\* Slip: added properties count as a change too
_hasResponseSchemaChangedSymmetric(oldSchema, newSchema) ==
    IF ~IsSome(oldSchema) /\ ~IsSome(newSchema) THEN FALSE
    ELSE IF ~IsSome(oldSchema) \/ ~IsSome(newSchema) THEN TRUE
    ELSE LET oldProps == SchemaProps(Get(oldSchema))
             newProps == SchemaProps(Get(newSchema))
         IN  \/ \E i \in 1..Len(oldProps) : ~Includes(newProps, oldProps[i])
             \/ \E i \in 1..Len(newProps) : ~Includes(oldProps, newProps[i])

_hasResponseSchemaChanged(oldSchema, newSchema) ==
    IF ~IsSome(oldSchema) /\ ~IsSome(newSchema) THEN FALSE
    ELSE IF ~IsSome(oldSchema) \/ ~IsSome(newSchema) THEN TRUE
    ELSE LET oldProps == SchemaProps(Get(oldSchema))
             newProps == SchemaProps(Get(newSchema))
         IN  \E i \in 1..Len(oldProps) : ~Includes(newProps, oldProps[i])

-----------------------------------------------------------------------------
(* SemanticVersionManager._detectModifications *)

\* One string of breakingChanges: prefix, `${method} ${path}`, the text after
\* it, and the list joined with ', ' at its end (removed status codes)
Entry(prefix, endpoint, text, codes) ==
    [prefix |-> prefix, endpoint |-> endpoint, text |-> text, codes |-> codes]

RemovedEndpoint(doc) == Entry("Removed endpoint: ", Label(doc), "", <<>>)
NewRequiredParameter(doc, param) ==
    Entry("", Label(doc), ": New required parameter '" \o param \o "'", <<>>)
ResponseSchemaChanged(doc) ==
    Entry("", Label(doc), ": Response schema changed", <<>>)
RemovedStatusCodes(doc, removedCodes) ==
    Entry("", Label(doc), ": Removed status codes: ", removedCodes)
MarkedBreaking(doc) ==
    Entry("", Label(doc),
          ": " \o (IF doc.breakingChangeDescription # ""
                   THEN doc.breakingChangeDescription
                   ELSE "Marked as breaking change"), <<>>)

\* new Set(doc.parameters.filter(p => p.required).map(p => p.name))
RequiredParams(doc) ==
    LET IsRequired(p) == p.required
    IN  SetOf(Names(SelectSeq(Get(doc.parameters), IsRequired)))

\* doc.statusCodes || []
StatusCodes(doc) == IF IsSome(doc.statusCodes) THEN Get(doc.statusCodes) ELSE <<>>

\* JSON.stringify of a list of strings; undefined for undefined
RECURSIVE JoinComma(_)
JoinComma(s) ==
    IF s = <<>> THEN ""
    ELSE IF Len(s) = 1 THEN "\"" \o s[1] \o "\""
    ELSE JoinComma(SubSeq(s, 1, Len(s) - 1)) \o ",\"" \o s[Len(s)] \o "\""

JSONStringify(o) == IF IsSome(o) THEN Some("[" \o JoinComma(Get(o)) \o "]") ELSE None

\* The result object when a TypeError leaves _detectModifications
Thrown ==
    [threw |-> TRUE, hasChanges |-> FALSE, hasBreakingChanges |-> FALSE,
     hasInternalChanges |-> FALSE, breakingChanges |-> <<>>]

\* Slip: compares with every parameter name of oldDoc, required or not
NewRequiredParamsAbsentOnly(oldDoc, newDoc) ==
    LET oldParams == Names(Get(oldDoc.parameters))
        newRequiredParams == RequiredParams(newDoc)
        IsNew(param) == ~Includes(oldParams, param)
    IN  SelectSeq(newRequiredParams, IsNew)

\* The names required in newDoc and not required in oldDoc, in newDoc's order
NewRequiredParams(oldDoc, newDoc) ==
    LET oldRequiredParams == RequiredParams(oldDoc)
        newRequiredParams == RequiredParams(newDoc)
        IsNew(param) == ~Includes(oldRequiredParams, param)
    IN  SelectSeq(newRequiredParams, IsNew)

\* [...oldCodes].filter(code => !newCodes.has(code))
RemovedCodes(oldDoc, newDoc) ==
    LET oldCodes == SetOf(StatusCodes(oldDoc))
        newCodes == SetOf(StatusCodes(newDoc))
        Gone(code) == ~Includes(newCodes, code)
    IN  SelectSeq(oldCodes, Gone)

\* Slip: the guard on hasBreakingChanges is forgotten
HasChangesWhenBreaking(oldParamCount, newParamCount, hasBreakingChanges) ==
    newParamCount # oldParamCount

\* Slip: only added parameters count
HasChangesOnlyWhenMore(oldParamCount, newParamCount, hasBreakingChanges) ==
    newParamCount > oldParamCount /\ ~hasBreakingChanges

\* newParamCount !== oldParamCount && !result.hasBreakingChanges
HasChanges(oldParamCount, newParamCount, hasBreakingChanges) ==
    newParamCount # oldParamCount /\ ~hasBreakingChanges

\* JSON.stringify(oldDoc.middleware) !== JSON.stringify(newDoc.middleware)
HasInternalChanges(oldDoc, newDoc) ==
    JSONStringify(oldDoc.middleware) # JSONStringify(newDoc.middleware)

_detectModifications(oldDoc, newDoc) ==
    IF ~IsSome(oldDoc.parameters) \/ ~IsSome(newDoc.parameters)
    THEN Thrown     \* undefined.filter(...) raises TypeError
    ELSE
    LET newParams == NewRequiredParams(oldDoc, newDoc)
        paramEntries == [i \in 1..Len(newParams) |->
                            NewRequiredParameter(newDoc, newParams[i])]
        schemaChanged ==
            _hasResponseSchemaChanged(oldDoc.responseSchema, newDoc.responseSchema)
        schemaEntries ==
            IF schemaChanged THEN <<ResponseSchemaChanged(newDoc)>> ELSE <<>>
        removedCodes == RemovedCodes(oldDoc, newDoc)
        codeEntries ==
            IF Len(removedCodes) > 0
            THEN <<RemovedStatusCodes(newDoc, removedCodes)>> ELSE <<>>
        flagEntries ==
            IF newDoc.breakingChange THEN <<MarkedBreaking(newDoc)>> ELSE <<>>
        hasBreakingChanges ==
            \/ paramEntries # <<>>
            \/ schemaChanged
            \/ Len(removedCodes) > 0
            \/ newDoc.breakingChange
    IN  [threw |-> FALSE,
         hasChanges |-> HasChanges(Len(Get(oldDoc.parameters)),
                                   Len(Get(newDoc.parameters)), hasBreakingChanges),
         hasBreakingChanges |-> hasBreakingChanges,
         hasInternalChanges |-> HasInternalChanges(oldDoc, newDoc),
         breakingChanges |->
             paramEntries \o schemaEntries \o codeEntries \o flagEntries]

-----------------------------------------------------------------------------
(* SemanticVersionManager.analyzeChanges *)

\* breakingChanges.push(...list) for each list in turn
RECURSIVE Flatten(_)
Flatten(lists) ==
    IF lists = <<>> THEN <<>>
    ELSE Flatten(SubSeq(lists, 1, Len(lists) - 1)) \o lists[Len(lists)]

\* The calls of the third loop of analyzeChanges: every entry of newMap whose
\* key oldMap has is handed to _detectModifications, in newMap's order
Compare(oldMap, both) ==
    [i \in 1..Len(both) |->
        [key |-> both[i].key,
         newDoc |-> both[i].value,
         modifications |->
             _detectModifications(MapGet(oldMap, both[i].key), both[i].value)]]

\* What the third loop pushes, given the results of its calls.  A TypeError
\* raised by a call ends the loop and analyzeChanges; calls lists the keys handed
\* over until then.
Collect(results) ==
    LET Threw(r) == r.modifications.threw
        Breaking(r) == r.modifications.hasBreakingChanges
        Changed(r) == r.modifications.hasChanges
        Internal(r) == r.modifications.hasInternalChanges
        Pushed(r) == r.modifications.breakingChanges
        EndpointOf(r) == Label(r.newDoc)
        KeyOf(r) == r.key
        Each(rs, F(_)) == [i \in 1..Len(rs) |-> F(rs[i])]
        First(i) == Threw(results[i]) /\ \A j \in 1..(i - 1) : ~Threw(results[j])
    IN  [threw |-> \E i \in 1..Len(results) : Threw(results[i]),
         breakingChanges |-> Flatten(Each(SelectSeq(results, Breaking), Pushed)),
         modifiedEndpoints |-> Each(SelectSeq(results, Changed), EndpointOf),
         internalChanges |-> Each(SelectSeq(results, Internal), EndpointOf),
         calls |-> IF \E i \in 1..Len(results) : First(i)
                   THEN SubSeq(Each(results, KeyOf), 1,
                               CHOOSE i \in 1..Len(results) : First(i))
                   ELSE Each(results, KeyOf)]

CheckModified(oldMap, newMap) ==
    LET InOld(e) == MapHas(oldMap, e.key)
    IN  Collect(Compare(oldMap, SelectSeq(newMap, InOld)))

\* `Breaking changes detected: ${n} breaking change(s)` and the like
Reason(before, n, after) == <<before, n, after>>

\* Slip: new endpoints are tested before breaking changes
DetermineBumpNewFirst(changes) ==
    IF Len(changes.newEndpoints) > 0
    THEN [bumpType |-> "minor",
          bumpReason |-> Reason("New features: ",
                                Len(changes.newEndpoints), " new endpoint(s)")]
    ELSE IF Len(changes.breakingChanges) > 0
    THEN [bumpType |-> "major",
          bumpReason |-> Reason("Breaking changes detected: ",
                                Len(changes.breakingChanges), " breaking change(s)")]
    ELSE [bumpType |-> "patch", bumpReason |-> <<>>]

\* The last statement of analyzeChanges: the bump type and its reason
DetermineBump(changes) ==
    IF Len(changes.breakingChanges) > 0
    THEN [bumpType |-> "major",
          bumpReason |-> Reason("Breaking changes detected: ",
                                Len(changes.breakingChanges), " breaking change(s)")]
    ELSE IF Len(changes.newEndpoints) > 0
    THEN [bumpType |-> "minor",
          bumpReason |-> Reason("New features: ",
                                Len(changes.newEndpoints), " new endpoint(s)")]
    ELSE IF Len(changes.modifiedEndpoints) > 0 \/ Len(changes.internalChanges) > 0
    THEN [bumpType |-> "patch",
          bumpReason |-> <<"Internal changes and improvements">>]
    ELSE [bumpType |-> "patch", bumpReason |-> <<>>]

\* `${doc.method} ${doc.path}` of the values of a list of Map entries
Labels(entries) == [i \in 1..Len(entries) |-> Label(entries[i].value)]

\* Slip: the test on oldMap is forgotten
CheckNewAll(oldMap, newMap) == Labels(newMap)

\* The first loop: the current keys absent from the previous snapshot
CheckNew(oldMap, newMap) ==
    LET NotInOld(e) == ~MapHas(oldMap, e.key)
    IN  Labels(SelectSeq(newMap, NotInOld))

\* Slip: a removed endpoint is deprecated but not pushed to breakingChanges
CheckRemovedNotBreaking(oldMap, newMap) ==
    LET NotInNew(e) == ~MapHas(newMap, e.key)
    IN  [deprecatedEndpoints |-> Labels(SelectSeq(oldMap, NotInNew)),
         breakingChanges |-> <<>>]

\* The second loop: the previous keys absent from the current snapshot, as
\* deprecated endpoints and as breaking changes
CheckRemoved(oldMap, newMap) ==
    LET NotInNew(e) == ~MapHas(newMap, e.key)
        gone == SelectSeq(oldMap, NotInNew)
    IN  [deprecatedEndpoints |-> Labels(gone),
         breakingChanges |-> [i \in 1..Len(gone) |-> RemovedEndpoint(gone[i].value)]]

\* The analysis object: the five lists with the bump they determine
Analysis(changes) ==
    [bumpType |-> DetermineBump(changes).bumpType,
     bumpReason |-> DetermineBump(changes).bumpReason,
     changes |-> changes]

\* The lists of the three loops put together
Assemble(newEndpoints, removed, loop) ==
    [threw |-> loop.threw,
     calls |-> loop.calls,
     analysis |->
         Analysis([breakingChanges |-> removed.breakingChanges \o loop.breakingChanges,
                   newEndpoints |-> newEndpoints,
                   modifiedEndpoints |-> loop.modifiedEndpoints,
                   deprecatedEndpoints |-> removed.deprecatedEndpoints,
                   internalChanges |-> loop.internalChanges])]

AnalyzeMaps(oldMap, newMap) ==
    Assemble(CheckNew(oldMap, newMap), CheckRemoved(oldMap, newMap),
             CheckModified(oldMap, newMap))

\* analyzeChanges(oldDocs, newDocs): threw, or the analysis object; calls lists
\* the keys it handed to _detectModifications
analyzeChanges(old, new) == AnalyzeMaps(DocMap(old), DocMap(new))

\* The value of `analysis` while no call has returned
NoAnalysis ==
    [bumpType |-> "undefined", bumpReason |-> <<>>,
     changes |-> [breakingChanges |-> <<>>, newEndpoints |-> <<>>,
                  modifiedEndpoints |-> <<>>, deprecatedEndpoints |-> <<>>,
                  internalChanges |-> <<>>]]

NoModifications ==
    [threw |-> FALSE, hasChanges |-> FALSE, hasBreakingChanges |-> FALSE,
     hasInternalChanges |-> FALSE, breakingChanges |-> <<>>]

-----------------------------------------------------------------------------
(* Inputs *)

\* the most Documentation records the two snapshots hold together
MaxDocs == 4

Endpoints == {<<"GET", "/a">>, <<"POST", "/a">>, <<"GET", "/b">>}

\* ParameterDescriptor records
pIdPath == [name |-> "id", in |-> "path",  required |-> TRUE]
pIdBody == [name |-> "id", in |-> "body",  required |-> FALSE]
pQ == [name |-> "q",  in |-> "query", required |-> FALSE]
pQReq == [name |-> "q",  in |-> "query", required |-> TRUE]

Body(parameters, responseSchema, statusCodes, middleware, flag, description) ==
    [parameters |-> parameters, responseSchema |-> responseSchema,
     statusCodes |-> statusCodes, middleware |-> middleware,
     breakingChange |-> flag, breakingChangeDescription |-> description]

Schema(properties) == Some([properties |-> properties])

\* Entry contents of the snapshots: plain; one more (required) parameter and a
\* middleware; flagged as breaking; an optional parameter, a schema and a status
\* code; and an entry stored without its parameters field
SnapshotBodies ==
    { Body(Some(<<>>), None, Some(<<>>), Some(<<>>), FALSE, ""),
      Body(Some(<<pIdPath>>), None, Some(<<>>), Some(<<"auth">>), FALSE, ""),
      Body(Some(<<>>), None, Some(<<>>), Some(<<>>), TRUE, "Endpoint redesigned"),
      Body(Some(<<pQ>>), Schema(Some(<<"x">>)), Some(<<200>>), Some(<<>>), FALSE, ""),
      Body(None, None, None, None, FALSE, "") }

Doc(endpoint, body) ==
    [method |-> endpoint[1], path |-> endpoint[2],
     parameters |-> body.parameters, responseSchema |-> body.responseSchema,
     statusCodes |-> body.statusCodes, middleware |-> body.middleware,
     breakingChange |-> body.breakingChange,
     breakingChangeDescription |-> body.breakingChangeDescription]

SnapshotDocs == {Doc(e, b) : e \in Endpoints, b \in SnapshotBodies}

\* (method, path) is unique within one snapshot (the unique index of the
\* collection the snapshots are read from)
UniqueKeys(docs) ==
    \A i, j \in 1..Len(docs) : Key(docs[i]) = Key(docs[j]) => i = j

Snapshots ==
    {docs \in UNION {[1..n -> SnapshotDocs] : n \in 0..Cardinality(Endpoints)} :
        UniqueKeys(docs)}

-----------------------------------------------------------------------------
(* Specification of analyzeChanges *)

\* the analyzer, the enhancer and the database connection at rest
ServicesIdle ==
    /\ fnNode = None
    /\ fnAnalysis = None
    /\ apc = "idle"
    /\ enabled = FALSE
    /\ maxRetries = None
    /\ retryDelay = None
    /\ givenDoc = None
    /\ examples = [request |-> None, response |-> None]
    /\ givenExamples = [request |-> None, response |-> None]
    /\ enhanced = None
    /\ step = 1
    /\ attempt = 1
    /\ invoked = 0
    /\ waits = <<>>
    /\ settledWith = None
    /\ epc = "idle"
    /\ batchDocs = <<>>
    /\ concurrency = 3
    /\ skipExisting = FALSE
    /\ cursor = 0
    /\ units = <<>>
    /\ batchOutput = <<>>
    /\ handed = <<>>
    /\ qpc = "idle"
    /\ isConnected = FALSE
    /\ connection = None
    /\ connectCalls = 0
    /\ dbOutcomes = <<>>
    /\ cpc = "idle"

PathIdle ==
    /\ rawPath = <<>>
    /\ cleaned = None
    /\ recleaned = None
    /\ routeParameters = None
    /\ ppc = "idle"

WalkIdle ==
    /\ app = None
    /\ routes = <<>>
    /\ wpc = "idle"

BuildIdle ==
    /\ schemaDir = [request |-> None, response |-> None]
    /\ documentation = <<>>
    /\ visited = 0
    /\ caught = {}
    /\ docpc = "idle"


DetectIdle ==
    /\ prevDoc = Doc(<<"GET", "/a">>, Body(Some(<<>>), None, Some(<<>>), Some(<<>>), FALSE, ""))
    /\ currDoc = prevDoc
    /\ dpc = "idle"
    /\ detected = NoModifications

BumpIdle ==
    /\ currentVersion = <<>>
    /\ bumpType = "patch"
    /\ bpc = "idle"
    /\ newVersion = None

Init ==
    /\ oldDocs \in Snapshots
    /\ newDocs \in Snapshots
    /\ Len(oldDocs) + Len(newDocs) <= MaxDocs
    /\ pc = "ready"
    /\ analysis = NoAnalysis
    /\ compared = <<>>
    /\ DetectIdle
    /\ BumpIdle
    /\ PathIdle
    /\ WalkIdle
    /\ BuildIdle
    /\ ServicesIdle

AnalyzeChanges ==
    /\ pc = "ready"
    /\ \E r \in {analyzeChanges(oldDocs, newDocs)} :
           /\ pc' = IF r.threw THEN "threw" ELSE "returned"
           /\ analysis' = IF r.threw THEN NoAnalysis ELSE r.analysis
           /\ compared' = r.calls
    /\ UNCHANGED <<oldDocs, newDocs>>
    /\ UNCHANGED <<detectVars, bumpVars, pathVars, walkVars, buildVars, serviceVars>>

Next == AnalyzeChanges

Spec == Init /\ [][Next]_vars

-----------------------------------------------------------------------------
(* Specification of _detectModifications on two records of one key *)

ParameterLists ==
    { None, Some(<<>>), Some(<<pIdPath>>), Some(<<pIdBody>>),
      Some(<<pIdPath, pQ>>), Some(<<pIdBody, pQReq>>), Some(<<pIdBody, pIdPath>>) }

ResponseSchemas ==
    { None, Schema(None), Schema(Some(<<"x">>)), Schema(Some(<<"x", "y">>)) }

StatusCodeLists == { None, Some(<<200>>), Some(<<200, 404>>) }

MiddlewareLists == { None, Some(<<>>), Some(<<"auth">>) }

DetectBodies ==
    { Body(p, r, c, m, f, "") :
        p \in ParameterLists, r \in ResponseSchemas, c \in StatusCodeLists,
        m \in MiddlewareLists, f \in BOOLEAN }

DetectDocs == {Doc(<<"GET", "/a">>, b) : b \in DetectBodies}

AnalyzeIdle ==
    /\ oldDocs = <<>>
    /\ newDocs = <<>>
    /\ pc = "idle"
    /\ analysis = NoAnalysis
    /\ compared = <<>>

InitDetect ==
    /\ prevDoc \in DetectDocs
    /\ currDoc \in DetectDocs
    /\ dpc = "ready"
    /\ detected = NoModifications
    /\ AnalyzeIdle
    /\ BumpIdle
    /\ PathIdle
    /\ WalkIdle
    /\ BuildIdle
    /\ ServicesIdle

DetectModifications ==
    /\ dpc = "ready"
    /\ detected' = _detectModifications(prevDoc, currDoc)
    /\ dpc' = IF detected'.threw THEN "threw" ELSE "returned"
    /\ UNCHANGED <<prevDoc, currDoc>>
    /\ UNCHANGED <<analyzeVars, bumpVars, pathVars, walkVars, buildVars, serviceVars>>

NextDetect == DetectModifications

SpecDetect == InitDetect /\ [][NextDetect]_vars

-----------------------------------------------------------------------------
(* SemanticVersionManager.bumpVersion and the semver.inc it calls *)

Digits == <<"0", "1", "2", "3", "4", "5", "6", "7", "8", "9">>

IsDigit(c) == Includes(Digits, c)
DigitValue(c) == (CHOOSE i \in 1..Len(Digits) : Digits[i] = c) - 1

\* currentVersion.replace(/^v/, '')
StripV(version) ==
    IF Len(version) > 0 /\ version[1] = "v" THEN Tail(version) ELSE version

\* String.prototype.split('.'): the pieces between the dots
RECURSIVE SplitDots(_)
SplitDots(s) ==
    IF s = <<>> THEN << <<>> >>
    ELSE LET init == SplitDots(SubSeq(s, 1, Len(s) - 1))
             c    == s[Len(s)]
             n    == Len(init)
         IN  IF c = "." THEN Append(init, <<>>)
             ELSE [init EXCEPT ![n] = Append(init[n], c)]

\* semver's numeric identifier: 0|[1-9]\d*
IsNumericIdentifier(part) ==
    /\ Len(part) > 0
    /\ \A i \in 1..Len(part) : IsDigit(part[i])
    /\ (Len(part) > 1 => part[1] # "0")

\* Number.MAX_SAFE_INTEGER, 2^53 - 1, in decimal
MAX_SAFE_INTEGER ==
    <<"9", "0", "0", "7", "1", "9", "9", "2", "5", "4", "7", "4", "0", "9", "9", "1">>

\* a > b for two numeric identifiers
RECURSIVE LexGreater(_, _)
LexGreater(a, b) ==
    IF a = <<>> THEN FALSE
    ELSE IF DigitValue(a[1]) # DigitValue(b[1]) THEN DigitValue(a[1]) > DigitValue(b[1])
    ELSE LexGreater(Tail(a), Tail(b))

Greater(a, b) ==
    IF Len(a) # Len(b) THEN Len(a) > Len(b) ELSE LexGreater(a, b)

\* n + 1 on the decimal digits of n
RECURSIVE Increment(_)
Increment(n) ==
    IF n = <<>> THEN <<"1">>
    ELSE LET init == SubSeq(n, 1, Len(n) - 1)
             d    == DigitValue(n[Len(n)])
         IN  IF d = 9 THEN Append(Increment(init), "0")
             ELSE Append(init, Digits[d + 2])

\* new SemVer(version): the three numbers of [v]MAJOR.MINOR.PATCH, or a
\* TypeError (valid = FALSE) for another string or a number above
\* MAX_SAFE_INTEGER.  Prerelease and build suffixes are outside the inputs.
SemVer(version) ==
    LET parts == SplitDots(StripV(version))
        valid == /\ Len(parts) = 3
                 /\ \A i \in 1..3 : IsNumericIdentifier(parts[i])
                 /\ \A i \in 1..3 : ~Greater(parts[i], MAX_SAFE_INTEGER)
    IN  IF valid
        THEN [valid |-> TRUE, major |-> parts[1], minor |-> parts[2], patch |-> parts[3]]
        ELSE [valid |-> FALSE, major |-> <<>>, minor |-> <<>>, patch |-> <<>>]

\* semver.inc(version, release): the incremented version, null when the
\* constructor or the increment throws
SemverInc(version, release) ==
    LET v == SemVer(version)
    IN  IF ~v.valid THEN None
        ELSE IF release = "major"
        THEN Some(Increment(v.major) \o <<".", "0", ".", "0">>)
        ELSE IF release = "minor"
        THEN Some(v.major \o <<".">> \o Increment(v.minor) \o <<".", "0">>)
        ELSE IF release = "patch"
        THEN Some(v.major \o <<".">> \o v.minor \o <<".">> \o Increment(v.patch))
        ELSE None

\* Slip: the prefix that was stripped is put back
bumpVersionKeepPrefix(version, type) ==
    LET cleanVersion == StripV(version)
        newVersionOpt == SemverInc(cleanVersion, type)
    IN  IF IsSome(newVersionOpt) /\ cleanVersion # version
        THEN Some(<<"v">> \o Get(newVersionOpt)) ELSE newVersionOpt

bumpVersion(version, type) ==
    LET cleanVersion == StripV(version)
    IN  SemverInc(cleanVersion, type)

-----------------------------------------------------------------------------
(* Specification of bumpVersion *)

\* 2^53, the first number semver refuses
TwoTo53 ==
    <<"9", "0", "0", "7", "1", "9", "9", "2", "5", "4", "7", "4", "0", "9", "9", "2">>

\* MAJOR, MINOR and PATCH of the versions tried
Components ==
    { <<"0">>, <<"4">>, <<"9">>, <<"1", "9">>, <<"9", "9">>, MAX_SAFE_INTEGER, TwoTo53 }

Prefixes == { <<>>, <<"v">> }

Version(prefix, x, y, z) == prefix \o x \o <<".">> \o y \o <<".">> \o z

Versions ==
    { Version(pre, x, y, z) : pre \in Prefixes, x \in Components,
                              y \in Components, z \in Components }

BumpTypes == {"major", "minor", "patch"}

InitBump ==
    /\ currentVersion \in Versions
    /\ bumpType \in BumpTypes
    /\ bpc = "ready"
    /\ newVersion = None
    /\ AnalyzeIdle
    /\ DetectIdle
    /\ PathIdle
    /\ WalkIdle
    /\ BuildIdle
    /\ ServicesIdle

BumpVersion ==
    /\ bpc = "ready"
    /\ newVersion' = bumpVersion(currentVersion, bumpType)
    /\ bpc' = "returned"
    /\ UNCHANGED <<currentVersion, bumpType>>
    /\ UNCHANGED <<analyzeVars, detectVars, pathVars, walkVars, buildVars, serviceVars>>

NextBump == BumpVersion

SpecBump == InitBump /\ [][NextBump]_vars

-----------------------------------------------------------------------------
(* RouteReflector: path strings.  A path is a sequence of one-character    *)
(* strings.                                                                *)

\* String.prototype.replace(/pat/g, rep) for a literal pattern: leftmost
\* non-overlapping occurrences, left to right
RECURSIVE ReplaceAll(_, _, _)
ReplaceAll(s, pat, rep) ==
    IF Len(s) < Len(pat) THEN s
    ELSE IF SubSeq(s, 1, Len(pat)) = pat
         THEN rep \o ReplaceAll(SubSeq(s, Len(pat) + 1, Len(s)), pat, rep)
         ELSE <<s[1]>> \o ReplaceAll(Tail(s), pat, rep)

\* the text the pattern /\?\(\?=\/\|\$\)/ matches: ?(?=/|$)
Lookahead == <<"?", "(", "?", "=", "/", "|", "$", ")">>

\* .replace(/\/+/g, '/')
RECURSIVE CollapseSlashes(_)
CollapseSlashes(s) ==
    IF Len(s) < 2 THEN s
    ELSE IF s[1] = "/" /\ s[2] = "/" THEN CollapseSlashes(Tail(s))
         ELSE <<s[1]>> \o CollapseSlashes(Tail(s))

\* the five replacements in order: backslashes, lookaheads, ^/, one $ at the
\* end of input (without the m flag $ matches there only), runs of /; then
\* the leading /
_cleanPath(path) ==
    IF path = <<>> THEN <<"/">>
    ELSE LET StripEndAnchor(s) ==
                 IF s # <<>> /\ s[Len(s)] = "$" THEN SubSeq(s, 1, Len(s) - 1)
                 ELSE s
             replaced == CollapseSlashes(StripEndAnchor(
                             ReplaceAll(ReplaceAll(SelectSeq(path, LAMBDA c : c # "\\"),
                                                   Lookahead, <<>>),
                                        <<"^", "/">>, <<"/">>)))
         IN  IF replaced # <<>> /\ replaced[1] = "/" THEN replaced
             ELSE <<"/">> \o replaced

\* [a-zA-Z_] and [a-zA-Z0-9_]
IdentifierStart ==
    {"a", "b", "c", "d", "e", "f", "g", "h", "i", "j", "k", "l", "m",
     "n", "o", "p", "q", "r", "s", "t", "u", "v", "w", "x", "y", "z",
     "A", "B", "C", "D", "E", "F", "G", "H", "I", "J", "K", "L", "M",
     "N", "O", "P", "Q", "R", "S", "T", "U", "V", "W", "X", "Y", "Z", "_"}
IdentifierPart ==
    IdentifierStart \cup {"0", "1", "2", "3", "4", "5", "6", "7", "8", "9"}

\* the length of the longest match of [a-zA-Z0-9_]* at position i
RECURSIVE IdentifierRun(_, _)
IdentifierRun(path, i) ==
    IF i <= Len(path) /\ path[i] \in IdentifierPart
    THEN 1 + IdentifierRun(path, i + 1) ELSE 0

\* the paramRegex.exec loop from lastIndex i - 1
RECURSIVE ExecFrom(_, _)
ExecFrom(path, i) ==
    IF i >= Len(path) THEN <<>>
    ELSE IF path[i] = ":" /\ path[i + 1] \in IdentifierStart
         THEN <<SubSeq(path, i + 1, i + IdentifierRun(path, i + 1))>>
              \o ExecFrom(path, i + 1 + IdentifierRun(path, i + 1))
         ELSE ExecFrom(path, i + 1)

_extractPathParameters(path) == ExecFrom(path, 1)

-----------------------------------------------------------------------------
(* Specification of _cleanPath and _extractPathParameters *)

MaxPathLen == 4

\* the paths the tests and the documentation quote:
\* "/api//users///", "/users/:id/posts/:postId", "/a/:id/b/:id"
ApiUsersRaw ==
    <<"/", "a", "p", "i", "/", "/", "u", "s", "e", "r", "s", "/", "/", "/">>
UserPosts == <<"/", "u", "s", "e", "r", "s", "/", ":", "i", "d",
               "/", "p", "o", "s", "t", "s", "/", ":", "p", "o", "s", "t", "I", "d">>
RepeatedId == <<"/", "a", "/", ":", "i", "d", "/", "b", "/", ":", "i", "d">>

\* the quoted paths, and every path of up to MaxPathLen pieces: separators,
\* parameter markers, identifier characters, artefacts of a pattern source
RawPaths ==
    LET Pieces == {<<"/">>, <<":">>, <<"a">>, <<"b">>, <<"1">>,
                   <<"$">>, <<"^">>, <<"\\">>, Lookahead}
        RECURSIVE Concat(_)
        Concat(pieces) ==
            IF pieces = <<>> THEN <<>> ELSE Head(pieces) \o Concat(Tail(pieces))
    IN  {ApiUsersRaw, UserPosts, RepeatedId} \cup
        UNION { {Concat(p) : p \in [1..n -> Pieces]} : n \in 0..MaxPathLen }

InitPath ==
    /\ rawPath \in RawPaths
    /\ cleaned = None
    /\ recleaned = None
    /\ routeParameters = None
    /\ ppc = "ready"
    /\ AnalyzeIdle
    /\ DetectIdle
    /\ BumpIdle
    /\ WalkIdle
    /\ BuildIdle
    /\ ServicesIdle

\* const path = this._cleanPath(basePath + route.path)
CleanPath ==
    /\ ppc = "ready"
    /\ cleaned' = Some(_cleanPath(rawPath))
    /\ ppc' = "cleaned"
    /\ UNCHANGED <<rawPath, recleaned, routeParameters>>
    /\ UNCHANGED <<analyzeVars, detectVars, bumpVars, walkVars, buildVars, serviceVars>>

\* a cleaned base path goes through _cleanPath again with what follows it;
\* here nothing follows
CleanPathAgain ==
    /\ ppc = "cleaned"
    /\ recleaned = None
    /\ recleaned' = Some(_cleanPath(Get(cleaned)))
    /\ UNCHANGED <<rawPath, cleaned, routeParameters, ppc>>
    /\ UNCHANGED <<analyzeVars, detectVars, bumpVars, walkVars, buildVars, serviceVars>>

\* routeParameters: this._extractPathParameters(path)
ExtractPathParameters ==
    /\ ppc = "cleaned"
    /\ routeParameters = None
    /\ routeParameters' = Some(_extractPathParameters(Get(cleaned)))
    /\ UNCHANGED <<rawPath, cleaned, recleaned, ppc>>
    /\ UNCHANGED <<analyzeVars, detectVars, bumpVars, walkVars, buildVars, serviceVars>>

NextPath == CleanPath \/ CleanPathAgain \/ ExtractPathParameters

SpecPath == InitPath /\ [][NextPath]_vars

-----------------------------------------------------------------------------
(* RouteReflector: the walk of the router stack.                           *)
(*                                                                         *)
(* A layer of a router stack is [route, name, handle, regexp]: route is an *)
(* option (the Route of a terminal layer), handle an option holding        *)
(* [stack |-> option], regexp an option holding [source |-> characters].   *)
(* A Route is [path, methods, stack]: methods lists the own keys of        *)
(* route.methods in insertion order with their values, stack is an option  *)
(* holding the handler chain.  An entry of the chain is [name, handle]:    *)
(* handle is an option holding the function, [name, async, length,         *)
(* source]; source stands for the text handlerFunction.toString() returns. *)

\* what one call contributes: the descriptors pushed on this.routes, and
\* whether it ended in an exception
Pushed(descriptors) == [threw |-> FALSE, routes |-> descriptors]
TypeError == [threw |-> TRUE, routes |-> <<>>]

\* String.prototype.toUpperCase on the method keys of Express
ToUpperCase(method) ==
    CASE method = "get" -> "GET"
      [] method = "post" -> "POST"
      [] method = "put" -> "PUT"
      [] method = "patch" -> "PATCH"
      [] method = "delete" -> "DELETE"
      [] method = "head" -> "HEAD"
      [] method = "options" -> "OPTIONS"
      [] method = "_all" -> "_ALL"

\* x || 'anonymous'
OrAnonymous(name) == IF name = "" THEN "anonymous" ELSE name

\* the same, the slice keeping the last entry, which is the handler
_extractMiddlewareWholeChain(stack) ==
    IF stack = None THEN <<>>
    ELSE [i \in 1..Len(Get(stack)) |-> OrAnonymous(Get(stack)[i].name)]

\* _extractMiddleware(stack), then .map(m => m.name || 'anonymous')
_extractMiddleware(stack) ==
    IF stack = None THEN <<>>
    ELSE [i \in 1..(Len(Get(stack)) - 1) |-> OrAnonymous(Get(stack)[i].name)]

\* _extractHandlerInfo(route.stack[route.stack.length - 1]): the last entry
\* of the chain, undefined when the chain is empty; reading the name of a
\* handle that is undefined raises
_extractHandlerInfo(chain) ==
    LET unknown == [threw |-> FALSE, handlerName |-> "unknown",
                    handlerType |-> "unknown", functionSource |-> None,
                    isAsync |-> None, parameterCount |-> None]
    IN  IF chain = <<>> THEN unknown
        ELSE IF chain[Len(chain)].handle = None
             THEN [unknown EXCEPT !.threw = TRUE]
             ELSE [threw |-> FALSE,
                   handlerName |-> OrAnonymous(Get(chain[Len(chain)].handle).name),
                   handlerType |-> IF Get(chain[Len(chain)].handle).async
                                   THEN "async" ELSE "function",
                   functionSource |-> Some(Get(chain[Len(chain)].handle).source),
                   isAsync |-> Some(Get(chain[Len(chain)].handle).async),
                   parameterCount |-> Some(Get(chain[Len(chain)].handle).length)]

\* Object.keys(route.methods).filter(m => route.methods[m]).map(toUpperCase)
DeclaredMethods(route) ==
    LET on == SelectSeq(route.methods, LAMBDA m : m.on)
    IN  [i \in 1..Len(on) |-> ToUpperCase(on[i].name)]

\* the body of methods.forEach, the same for every method but for `method`:
\* the object pushed on this.routes
PushEach(methods, path, basePath, handlerInfo, middleware) ==
    IF handlerInfo.threw THEN TypeError
    ELSE Pushed([i \in 1..Len(methods) |->
                    [method |-> methods[i], path |-> path,
                     basePath |-> basePath, fullPath |-> path,
                     handlerName |-> handlerInfo.handlerName,
                     handlerType |-> handlerInfo.handlerType,
                     functionSource |-> handlerInfo.functionSource,
                     isAsync |-> handlerInfo.isAsync,
                     parameterCount |-> handlerInfo.parameterCount,
                     middleware |-> middleware,
                     routeParameters |-> _extractPathParameters(path)]])

\* nothing runs without a declared method; route.stack.length raises when
\* the chain is missing
_processRoute(route, basePath) ==
    IF DeclaredMethods(route) = <<>> THEN Pushed(<<>>)
    ELSE IF route.stack = None THEN TypeError
    ELSE PushEach(DeclaredMethods(route), _cleanPath(basePath \o route.path),
                  basePath, _extractHandlerInfo(Get(route.stack)),
                  _extractMiddleware(route.stack))

\* the longest prefix of s made of characters other than \ and ?
RECURSIVE LiteralRun(_)
LiteralRun(s) ==
    IF s = <<>> \/ s[1] \in {"\\", "?"} THEN <<>>
    ELSE <<s[1]>> \o LiteralRun(Tail(s))

\* (source.match(/^\\\/([^\\?]+)/) || ['', ''])[1]: the source has to start
\* with \/ and one more character
MountPrefix(source) ==
    IF Len(source) >= 3 /\ source[1] = "\\" /\ source[2] = "/"
       /\ source[3] \notin {"\\", "?"}
    THEN LiteralRun(SubSeq(source, 3, Len(source)))
    ELSE <<>>

\* layer.handle && layer.handle.stack
HasStack(layer) == IsSome(layer.handle) /\ IsSome(Get(layer.handle).stack)

RECURSIVE _walkStack(_, _)
RECURSIVE ForEachLayer(_, _)
RECURSIVE Continue(_, _, _)

\* the callback of stack.forEach; layer.regexp.source raises without regexp
WalkLayer(layer, basePath) ==
    IF IsSome(layer.route) THEN _processRoute(Get(layer.route), basePath)
    ELSE IF layer.name = "router" /\ HasStack(layer)
         THEN IF layer.regexp = None THEN TypeError
              ELSE _walkStack(Get(layer.handle).stack,
                              _cleanPath(basePath \o
                                         MountPrefix(Get(layer.regexp).source)))
         ELSE IF layer.name = "bound dispatch" /\ HasStack(layer)
              THEN _walkStack(Get(layer.handle).stack, basePath)
              ELSE Pushed(<<>>)

\* an exception in the callback ends forEach; what was pushed stays pushed
Continue(first, layers, basePath) ==
    IF first.threw THEN first
    ELSE [threw |-> ForEachLayer(layers, basePath).threw,
          routes |-> first.routes \o ForEachLayer(layers, basePath).routes]

ForEachLayer(layers, basePath) ==
    IF layers = <<>> THEN Pushed(<<>>)
    ELSE Continue(WalkLayer(Head(layers), basePath), Tail(layers), basePath)

\* stack is an option: !stack || !Array.isArray(stack) returns at once
_walkStack(stack, basePath) ==
    IF stack = None THEN Pushed(<<>>)
    ELSE ForEachLayer(Get(stack), basePath)

\* extractRoutes(app): app is an option holding [_router |-> option]
extractRoutes(a) ==
    IF a = None \/ Get(a)._router = None
    THEN [threw |-> TRUE, routes |-> <<>>]
    ELSE _walkStack(Get(Get(a)._router).stack, <<>>)

-----------------------------------------------------------------------------
(* ASTAnalyzer.analyzeCode, as far as the builder depends on it.           *)
(*                                                                         *)
(* The text of a handler is represented by what the parser and the         *)
(* traversal make of it: [parses, message, functions].  parses is FALSE    *)
(* when parse or the traversal raises, message is the message of that      *)
(* exception, functions the FunctionAnalysis objects the visitors push, in *)
(* source order.  A FunctionAnalysis is [requestUsage, responseUsage,      *)
(* returnValues]; a field name is a sequence of characters, as a path      *)
(* parameter is.                                                           *)

\* the try block returns the analysis, the catch block an empty one that
\* carries the message
analyzeCode(code) ==
    IF code.parses
    THEN [functions |-> code.functions, errors |-> <<>>]
    ELSE [functions |-> <<>>, errors |-> <<code.message>>]

-----------------------------------------------------------------------------
(* DocumentationBuilder.                                                   *)
(*                                                                         *)
(* A schema object is a record of options [type, properties, example,      *)
(* description, schemaFile]; an abstracted structure is [typeof, entries]  *)
(* with entries the own enumerable properties [key, value], a value being  *)
(* [kind, type, text].                                                     *)

ALL == <<"_", "_", "A", "L", "L", "_", "_">>

Parameter(name, location, type, required, description) ==
    [name |-> name, in |-> location, type |-> type, required |-> required,
     description |-> description]

\* the same, seeded only for a route that has handler source
PathParametersIfSource(route) ==
    IF route.functionSource = None THEN <<>>
    ELSE [i \in 1..Len(route.routeParameters) |->
             Parameter(route.routeParameters[i], "path", "string", TRUE,
                       Some(<<"Path parameter: ", route.routeParameters[i]>>))]

\* route.routeParameters.forEach(param => doc.parameters.push({...}))
PathParameters(route) ==
    [i \in 1..Len(route.routeParameters) |->
        Parameter(route.routeParameters[i], "path", "string", TRUE,
                  Some(<<"Path parameter: ", route.routeParameters[i]>>))]

\* fields.filter(f => f !== '__ALL__')
Fields(fields) == SelectSeq(fields, LAMBDA f : f # ALL)

\* the forEach over paramFields: a field is pushed unless doc.parameters,
\* as it stands at that iteration, holds a path parameter of that name
\* (doc.parameters.find(p => p.name === field && p.in === 'path'))
RECURSIVE PushMissingPath(_, _)
PushMissingPath(parameters, fields) ==
    IF fields = <<>> THEN parameters
    ELSE PushMissingPath(
             IF \E i \in 1..Len(parameters) :
                    parameters[i].name = Head(fields) /\ parameters[i].in = "path"
             THEN parameters
             ELSE Append(parameters,
                         Parameter(Head(fields), "path", "string", TRUE,
                                   Some(<<"Path parameter: ", Head(fields)>>))),
             Tail(fields))

NoSchema == [type |-> None, properties |-> None, example |-> None,
             description |-> None, schemaFile |-> None]

\* the doc after _extractRequestParameters: body and query fields pushed,
\* then the params fields that are no path parameter yet, then the headers;
\* requestSchema set when the body is used as a whole only
_extractRequestParameters(functionAnalysis, doc) ==
    LET Pushes(fields, location, type, text) ==
            [i \in 1..Len(fields) |->
                Parameter(fields[i], location, type, FALSE,
                          Some(<<text, fields[i]>>))]
    IN  [doc EXCEPT
           !.parameters =
               PushMissingPath(
                   @ \o Pushes(Fields(functionAnalysis.requestUsage.body),
                               "body", "unknown", "Body parameter: ")
                     \o Pushes(Fields(functionAnalysis.requestUsage.query),
                               "query", "string", "Query parameter: "),
                   Fields(functionAnalysis.requestUsage.params))
               \o Pushes(Fields(functionAnalysis.requestUsage.headers),
                         "header", "string", "Header: "),
           !.requestSchema =
               IF /\ functionAnalysis.requestUsage.body # <<>>
                  /\ Fields(functionAnalysis.requestUsage.body) = <<>>
                  /\ Includes(functionAnalysis.requestUsage.body, ALL)
               THEN Some([NoSchema EXCEPT
                            !.type = Some("object"),
                            !.description =
                                Some("Request body (structure not auto-detected)")])
               ELSE @]

\* _convertToSchemaProperties(obj) for a structure whose values are
\* primitives, as _extractObjectStructure builds them
_convertToSchemaProperties(obj) ==
    IF obj.typeof # "object" THEN <<>>
    ELSE LET kept == SelectSeq(obj.entries, LAMBDA e : e.key # "status")
             SchemaProperty(entry) ==
                 [key |-> entry.key,
                  type |-> CASE entry.value.kind = "var" -> "unknown"
                             [] entry.value.kind = "template_string" -> "string"
                             [] entry.value.kind = "complex_expression" -> "unknown"
                             [] OTHER -> entry.value.type,
                  description |->
                      CASE entry.value.kind = "var" -> Some(<<"Variable: ", entry.value.text>>)
                        [] entry.value.kind = "template_string" -> Some(<<"Template string">>)
                        [] entry.value.kind = "complex_expression" -> Some(<<"Complex expression">>)
                        [] OTHER -> None,
                  example |-> IF entry.value.kind = "literal"
                              THEN Some(entry.value.text) ELSE None]
         IN  [i \in 1..Len(kept) |-> SchemaProperty(kept[i])]

\* the doc after _extractResponseStructure: the first structure, or else
\* the first return value
_extractResponseStructure(functionAnalysis, doc) ==
    [doc EXCEPT
       !.responseSchema =
           IF functionAnalysis.responseUsage.structures # <<>>
           THEN Some([NoSchema EXCEPT
                        !.type = Some("object"),
                        !.properties = Some(_convertToSchemaProperties(
                                           functionAnalysis.responseUsage.structures[1])),
                        !.example = Some(functionAnalysis.responseUsage.structures[1])])
           ELSE IF functionAnalysis.returnValues # <<>>
                THEN Some([NoSchema EXCEPT
                             !.type = Some(functionAnalysis.returnValues[1].typeof),
                             !.example = Some(functionAnalysis.returnValues[1])])
                ELSE @,
       !.examples =
           IF functionAnalysis.responseUsage.structures # <<>>
           THEN [response |-> Some(functionAnalysis.responseUsage.structures[1])]
           ELSE @]

\* .replace(/:(\w+)/g, '$1'): \w is [A-Za-z0-9_]
RECURSIVE StripMarkers(_)
StripMarkers(s) ==
    IF s = <<>> THEN <<>>
    ELSE IF s[1] = ":" /\ Len(s) >= 2 /\ s[2] \in IdentifierPart
         THEN StripMarkers(Tail(s))
         ELSE <<s[1]>> \o StripMarkers(Tail(s))

\* `${cleanPath}.${method.toLowerCase()}`, cleanPath being the path after
\* .replace(/^\/api\//, ''), .replace(/^\//, ''), .replace(/\//g, '.'),
\* .replace(/:(\w+)/g, '$1') and .replace(/\.$/, '')
_routeToSchemaName(method, path) ==
    LET StripApi(s) ==
            IF Len(s) >= 5 /\ SubSeq(s, 1, 5) = <<"/", "a", "p", "i", "/">>
            THEN SubSeq(s, 6, Len(s)) ELSE s
        StripLeadingSlash(s) == IF s # <<>> /\ s[1] = "/" THEN Tail(s) ELSE s
        StripEndDot(s) ==
            IF s # <<>> /\ s[Len(s)] = "." THEN SubSeq(s, 1, Len(s) - 1) ELSE s
        ToLowerCase(m) ==
            CASE m = "GET" -> "get"
              [] m = "POST" -> "post"
              [] m = "PUT" -> "put"
              [] m = "PATCH" -> "patch"
              [] m = "DELETE" -> "delete"
              [] m = "HEAD" -> "head"
              [] m = "OPTIONS" -> "options"
              [] m = "_ALL" -> "_all"
    IN  <<StripEndDot(StripMarkers(ReplaceAll(StripLeadingSlash(StripApi(path)),
                                              <<"/">>, <<".">>))),
          ".", ToLowerCase(method)>>

\* the doc after _loadSchemas: files is [request, response], each an option
\* holding the parsed content of the file of this route, None when readFile
\* raises.  A request file replaces the schema; a response file is spread
\* over the detected one, { ...doc.responseSchema, ...parsedSchema }
_loadSchemas(doc, files) ==
    [doc EXCEPT
       !.requestSchema =
           IF IsSome(files.request)
           THEN Some([Get(files.request) EXCEPT
                        !.schemaFile =
                            Some(<<"request", _routeToSchemaName(doc.method, doc.path)>>)])
           ELSE @,
       !.responseSchema =
           IF IsSome(files.response)
           THEN Some([(IF IsSome(@)
                       THEN [f \in DOMAIN NoSchema |->
                                IF IsSome(Get(files.response)[f])
                                THEN Get(files.response)[f] ELSE Get(@)[f]]
                       ELSE Get(files.response))
                      EXCEPT !.schemaFile =
                          Some(<<"response", _routeToSchemaName(doc.method, doc.path)>>)])
           ELSE @]

\* const doc = {...} and the path parameters pushed on it
Documentation(route) ==
    [method |-> route.method, path |-> route.path,
     handlerName |-> route.handlerName, handlerType |-> route.handlerType,
     middleware |-> route.middleware,
     parameters |-> PathParameters(route),
     requestSchema |-> None, responseSchema |-> None,
     statusCodes |-> <<>>, examples |-> [response |-> None],
     metadata |-> [isAsync |-> route.isAsync,
                   parameterCount |-> route.parameterCount,
                   error |-> None, partial |-> None]]

\* the doc once the first function of the analysis has been merged in;
\* [...new Set(codes)] keeps the first occurrence of each code, in order
WithAnalysis(functionAnalysis, doc) ==
    LET Unique(codes) ==
            LET first == {i \in 1..Len(codes) :
                             \A j \in 1..(i - 1) : codes[j] # codes[i]}
            IN  [k \in 1..Cardinality(first) |->
                    codes[CHOOSE i \in first :
                              Cardinality({j \in first : j <= i}) = k]]
    IN  [_extractResponseStructure(functionAnalysis,
                                   _extractRequestParameters(functionAnalysis, doc))
         EXCEPT !.statusCodes =
                    IF functionAnalysis.responseUsage.statusCodes # <<>>
                    THEN Unique(functionAnalysis.responseUsage.statusCodes)
                    ELSE @]

\* route.functionSource is there and its analysis has a first function
Analysed(route) ==
    /\ IsSome(route.functionSource)
    /\ analyzeCode(Get(route.functionSource)).functions # <<>>

_buildRouteDocumentation(route, files) ==
    IF Analysed(route)
    THEN _loadSchemas(WithAnalysis(analyzeCode(Get(route.functionSource)).functions[1],
                                   Documentation(route)),
                      files)
    ELSE _loadSchemas(Documentation(route), files)

\* route.routeParameters.map(param => ({name, in, type, required})), and
\* metadata: { error: error.message, partial: true }
_createMinimalDoc(route, error) ==
    [method |-> route.method, path |-> route.path,
     handlerName |-> route.handlerName, handlerType |-> route.handlerType,
     middleware |-> route.middleware,
     parameters |-> [i \in 1..Len(route.routeParameters) |->
                        Parameter(route.routeParameters[i], "path", "string",
                                  TRUE, None)],
     requestSchema |-> None, responseSchema |-> None,
     statusCodes |-> <<>>, examples |-> [response |-> None],
     metadata |-> [isAsync |-> None, parameterCount |-> None,
                   error |-> Some(error), partial |-> Some(TRUE)]]

-----------------------------------------------------------------------------
(* Routing trees *)

\* what the parser makes of "function () { [native code] }" and of an
\* anonymous function expression: a syntax error
NoParse == [parses |-> FALSE, message |-> "Unexpected token", functions |-> <<>>]

\* what the traversal makes of an arrow function in statement position: no
\* visitor pushes a function
NoFunction == [parses |-> TRUE, message |-> "", functions |-> <<>>]

\* an entry of a handler chain over a function of two parameters
ChainEntry(name, functionName, async, source) ==
    [name |-> name,
     handle |-> Some([name |-> functionName, async |-> async, length |-> 2,
                      source |-> source])]

authenticate == ChainEntry("authenticate", "authenticate", FALSE, NoParse)

\* the pattern source Express builds for a path: ^ and the path with each /
\* escaped, then \/?(?=\/|$) for a mount and \/?$ for a route
PatternSource(path, mount) ==
    <<"^">> \o ReplaceAll(path, <<"/">>, <<"\\", "/">>) \o <<"\\", "/", "?">>
    \o (IF mount THEN <<"(", "?", "=", "\\", "/", "|", "$", ")">> ELSE <<"$">>)

\* router.get(path, ...), router.post(path, ...): the layer of a Route whose
\* methods object holds `methods`, [name, on], in insertion order
RouteLayer(path, methods, stack) ==
    [route |-> Some([path |-> path, methods |-> methods, stack |-> stack]),
     name |-> "bound dispatch", handle |-> Some([stack |-> None]),
     regexp |-> Some([source |-> PatternSource(path, FALSE)])]

\* a layer without route: app.use(fn) (stack None), app.use(path, router)
\* (name 'router'), or a layer named 'bound dispatch' that carries a stack
Layer(name, stack, regexp) ==
    [route |-> None, name |-> name, handle |-> Some([stack |-> stack]),
     regexp |-> regexp]

Application(stack) == Some([_router |-> Some([stack |-> Some(stack)])])

\* route layers: GET /:id behind two middleware entries; GET and POST /
\* (head switched off); a route whose chain is missing, one whose chain is
\* empty, one whose last entry has no function.  Around them: a middleware
\* layer, routers mounted at /api/users and /api or carrying no regexp, and
\* pass-through nodes, over stacks that nest a router mounted at /users
Layers ==
    LET ById == <<"/", ":", "i", "d">>
        Root == <<"/">>
        Mounted(path) == Some([source |-> PatternSource(path, TRUE)])
        routeById ==
            RouteLayer(ById, <<[name |-> "get", on |-> TRUE]>>,
                       Some(<<authenticate,
                              ChainEntry("", "", FALSE, NoFunction),
                              ChainEntry("getUserById", "getUserById", TRUE, NoFunction)>>))
        routeRoot ==
            RouteLayer(Root, <<[name |-> "get", on |-> TRUE],
                               [name |-> "head", on |-> FALSE],
                               [name |-> "post", on |-> TRUE]>>,
                       Some(<<ChainEntry("<anonymous>", "", FALSE, NoFunction)>>))
        routeNoChain == RouteLayer(ById, <<[name |-> "put", on |-> TRUE]>>, None)
        routeEmptyChain ==
            RouteLayer(Root, <<[name |-> "patch", on |-> TRUE]>>, Some(<<>>))
        routeUnbound ==
            RouteLayer(ById, <<[name |-> "delete", on |-> TRUE]>>,
                       Some(<<authenticate, [name |-> "handle", handle |-> None]>>))
        NestedStacks ==
            { <<>>, <<routeById>>, <<routeById, routeRoot>>,
              <<routeNoChain, routeById>>, <<routeEmptyChain>>,
              <<routeUnbound, routeRoot>>,
              <<Layer("router", Some(<<routeById>>),
                      Mounted(<<"/", "u", "s", "e", "r", "s">>))>>,
              <<Layer("bound dispatch", Some(<<routeById>>), Mounted(<<>>)),
                routeRoot>>,
              <<Layer("router", Some(<<routeById>>), None), routeRoot>> }
        MountPatterns ==
            {Mounted(<<"/", "a", "p", "i", "/", "u", "s", "e", "r", "s">>),
             Mounted(<<"/", "a", "p", "i">>), None}
    IN  {routeById, routeRoot, routeNoChain, routeEmptyChain, routeUnbound}
        \cup {Layer("jsonParser", None, Mounted(<<>>))}
        \cup {Layer("router", Some(s), p) : p \in MountPatterns, s \in NestedStacks}
        \cup {Layer("bound dispatch", Some(s), Mounted(<<>>)) : s \in NestedStacks}

MaxLayers == 2

Applications ==
    {None, Some([_router |-> None])} \cup
    UNION { {Application(s) : s \in [1..n -> Layers]} : n \in 0..MaxLayers }

-----------------------------------------------------------------------------
(* Specification of extractRoutes *)

InitWalk ==
    /\ app \in Applications
    /\ routes = <<>>
    /\ wpc = "ready"
    /\ AnalyzeIdle
    /\ DetectIdle
    /\ BumpIdle
    /\ PathIdle
    /\ BuildIdle
    /\ ServicesIdle

\* this.routes = []; this._walkStack(app._router.stack, ''); return this.routes
ExtractRoutes ==
    /\ wpc = "ready"
    /\ docpc = "idle"
    /\ \E r \in {extractRoutes(app)} :
           /\ routes' = r.routes
           /\ wpc' = IF r.threw THEN "threw" ELSE "returned"
    /\ UNCHANGED app
    /\ UNCHANGED <<analyzeVars, detectVars, bumpVars, pathVars, buildVars, serviceVars>>

NextWalk == ExtractRoutes

SpecWalk == InitWalk /\ [][NextWalk]_vars

-----------------------------------------------------------------------------
(* Handlers and schema files of the documentation build *)

FunctionAnalysis(body, query, params, headers, statusCodes, structures,
                 returnValues) ==
    [requestUsage |-> [body |-> body, query |-> query, params |-> params,
                       headers |-> headers],
     responseUsage |-> [statusCodes |-> statusCodes, structures |-> structures],
     returnValues |-> returnValues]

\* what the parser and the traversal make of a handler: nothing, or
\*   readsId: reads req.params.id and answers res.json(user);
\*   readsTwice: reads req.body.email twice, req.query.page,
\*     req.params.postId twice and a header, and answers
\*     res.status(201).json({status: 201, ok: true, user}) or 400, 400;
\*   readsAll: passes req.body, req.query and req.params on and returns a
\*     value.
\* Every two-level read also leaves the sentinel (the traversal enters its
\* inner req.<usage> node too), headers aside, and a chained status call
\* leaves its code twice
Sources ==
    LET Parsed(functions) ==
            [parses |-> TRUE, message |-> "", functions |-> functions]
        PostId == <<"p", "o", "s", "t", "I", "d">>
        Email == <<"e", "m", "a", "i", "l">>
        Literal(type, text) == [kind |-> "literal", type |-> type, text |-> text]
        readsId ==
            FunctionAnalysis(<<>>, <<>>, << <<"i", "d">>, ALL >>, <<>>, <<>>,
                             <<[typeof |-> "string", entries |-> <<>>]>>, <<>>)
        readsTwice ==
            FunctionAnalysis(<<Email, ALL, Email, ALL>>,
                             << <<"p", "a", "g", "e">>, ALL >>,
                             <<PostId, ALL, PostId, ALL>>,
                             << <<"t", "o", "k", "e", "n">> >>,
                             <<201, 201, 400, 400>>,
                             <<[typeof |-> "object",
                                entries |->
                                    <<[key |-> "status", value |-> Literal("number", "201")],
                                      [key |-> "ok", value |-> Literal("boolean", "true")],
                                      [key |-> "user",
                                       value |-> [kind |-> "var", type |-> "string",
                                                  text |-> "user"]]>>]>>,
                             <<>>)
        readsAll ==
            FunctionAnalysis(<<ALL>>, <<ALL>>, <<ALL>>, <<>>, <<>>, <<>>,
                             <<[typeof |-> "string", entries |-> <<>>]>>)
    IN  {NoParse, NoFunction, Parsed(<<readsId>>),
         Parsed(<<readsTwice, readsId>>), Parsed(<<readsAll>>)}

\* GET /users/:id/posts/:postId, DELETE /a/:id/b/:id, GET and PUT
\* /api/health, each with every source behind one middleware and with the
\* empty chain
DocumentedLayers ==
    LET Health == <<"/", "a", "p", "i", "/", "h", "e", "a", "l", "t", "h">>
        Chains ==
            {Some(<<authenticate, ChainEntry("handler", "handler", TRUE, s)>>) :
                s \in Sources}
            \cup {Some(<<>>)}
    IN  {RouteLayer(UserPosts, <<[name |-> "get", on |-> TRUE]>>, c) : c \in Chains}
        \cup {RouteLayer(RepeatedId, <<[name |-> "delete", on |-> TRUE]>>, c) : c \in Chains}
        \cup {RouteLayer(Health, <<[name |-> "get", on |-> TRUE],
                                   [name |-> "put", on |-> TRUE]>>, c) : c \in Chains}

MaxRoutes == 2

DocumentedApplications ==
    {None} \cup
    UNION { {Application(s) : s \in [1..n -> DocumentedLayers]} : n \in 0..MaxRoutes }

\* the schema directory: empty, or holding a request and a response schema
\* under the name of every route
SchemaDirs ==
    LET Override == [NoSchema EXCEPT !.type = Some("object"),
                                     !.description = Some("from file")]
    IN  {[request |-> None, response |-> None],
         [request |-> Some(Override), response |-> Some(Override)]}

-----------------------------------------------------------------------------
(* Specification of buildDocumentation *)

InitBuild ==
    /\ app \in DocumentedApplications
    /\ routes = <<>>
    /\ wpc = "ready"
    /\ schemaDir \in SchemaDirs
    /\ documentation = <<>>
    /\ visited = 0
    /\ caught = {}
    /\ docpc = "start"
    /\ AnalyzeIdle
    /\ DetectIdle
    /\ BumpIdle
    /\ PathIdle
    /\ ServicesIdle

\* const routes = this.reflector.extractRoutes(app); const documentation = []
StartBuild ==
    /\ docpc = "start"
    /\ \E r \in {extractRoutes(app)} :
           /\ routes' = r.routes
           /\ wpc' = IF r.threw THEN "threw" ELSE "returned"
           /\ docpc' = IF r.threw THEN "threw" ELSE "building"
    /\ UNCHANGED <<app, schemaDir, documentation, visited, caught>>
    /\ UNCHANGED <<analyzeVars, detectVars, bumpVars, pathVars, serviceVars>>

\* one turn of the loop, the try block completing
DocumentRoute ==
    /\ docpc = "building"
    /\ visited < Len(routes)
    /\ documentation' = Append(documentation,
                               _buildRouteDocumentation(routes[visited + 1], schemaDir))
    /\ visited' = visited + 1
    /\ UNCHANGED <<schemaDir, caught, docpc>>
    /\ UNCHANGED <<analyzeVars, detectVars, bumpVars, pathVars, walkVars, serviceVars>>

\* the same, with the slot left out of the documentation array
DocumentRouteMinimalSkipped ==
    /\ docpc = "building"
    /\ visited < Len(routes)
    /\ visited' = visited + 1
    /\ caught' = caught \cup {visited + 1}
    /\ UNCHANGED <<schemaDir, documentation, docpc>>
    /\ UNCHANGED <<analyzeVars, detectVars, bumpVars, pathVars, walkVars, serviceVars>>

\* one turn of the loop, the try block raising: the catch block pushes the
\* minimal doc with error.message.  No statement of _buildRouteDocumentation
\* raises on a route that extractRoutes built; the exception is one the host
\* raises in it.
DocumentRouteMinimal ==
    /\ docpc = "building"
    /\ visited < Len(routes)
    /\ \E message \in {"assembly failed"} :
           documentation' = Append(documentation,
                                   _createMinimalDoc(routes[visited + 1], message))
    /\ visited' = visited + 1
    /\ caught' = caught \cup {visited + 1}
    /\ UNCHANGED <<schemaDir, docpc>>
    /\ UNCHANGED <<analyzeVars, detectVars, bumpVars, pathVars, walkVars, serviceVars>>

\* return documentation
ReturnDocumentation ==
    /\ docpc = "building"
    /\ visited = Len(routes)
    /\ docpc' = "returned"
    /\ UNCHANGED <<schemaDir, documentation, visited, caught>>
    /\ UNCHANGED <<analyzeVars, detectVars, bumpVars, pathVars, walkVars, serviceVars>>

NextBuild == StartBuild \/ DocumentRoute \/ DocumentRouteMinimal \/ ReturnDocumentation

SpecBuild == InitBuild /\ [][NextBuild]_vars

-----------------------------------------------------------------------------
(* Properties of analyzeChanges, stated on its arguments and its result *)

SameEndpoint(d, e) == d.method = e.method /\ d.path = e.path
InPrevious(d) == \E i \in 1..Len(oldDocs) : SameEndpoint(oldDocs[i], d)
InCurrent(d) == \E i \in 1..Len(newDocs) : SameEndpoint(newDocs[i], d)
PreviousOf(d) == oldDocs[CHOOSE i \in 1..Len(oldDocs) : SameEndpoint(oldDocs[i], d)]
EndpointText(d) == <<d.method, " ", d.path>>
Occurrences(s, x) == Cardinality({i \in 1..Len(s) : s[i] = x})
Changes == analysis.changes

\* an entry of breakingChanges that a comparison of the endpoint contributed
ContributedBreaking(d) ==
    \E i \in 1..Len(Changes.breakingChanges) :
        /\ Changes.breakingChanges[i].endpoint = EndpointText(d)
        /\ Changes.breakingChanges[i].prefix = ""

RemovalText(endpointText) ==
    [prefix |-> "Removed endpoint: ", endpoint |-> endpointText,
     text |-> "", codes |-> <<>>]

C2_DeprecatedIsBreaking ==
    pc = "returned" =>
        /\ \A i \in 1..Len(oldDocs) :
               ~InCurrent(oldDocs[i]) =>
                   /\ Includes(Changes.deprecatedEndpoints, EndpointText(oldDocs[i]))
                   /\ Includes(Changes.breakingChanges,
                               RemovalText(EndpointText(oldDocs[i])))
        /\ \A k \in 1..Len(Changes.deprecatedEndpoints) :
               Occurrences(Changes.breakingChanges,
                           RemovalText(Changes.deprecatedEndpoints[k])) = 1
        /\ Cardinality({j \in 1..Len(Changes.breakingChanges) :
                           Changes.breakingChanges[j].prefix = "Removed endpoint: "})
               = Len(Changes.deprecatedEndpoints)
        /\ (Changes.deprecatedEndpoints # <<>> => analysis.bumpType = "major")

\* two endpoints removed while another one is kept unchanged
C2_Witness ==
    /\ pc = "returned"
    /\ Len(Changes.deprecatedEndpoints) = 2
    /\ Len(Changes.breakingChanges) = 2
    /\ Len(newDocs) = 1
    /\ compared # <<>>

FourListsEmpty ==
    /\ Changes.breakingChanges = <<>>
    /\ Changes.newEndpoints = <<>>
    /\ Changes.modifiedEndpoints = <<>>
    /\ Changes.deprecatedEndpoints = <<>>

Flagged(docs) == {i \in 1..Len(docs) : docs[i].breakingChange}

\* C3 as claimed: for the same snapshot as previous and current, whatever its
\* entries (flagged as breaking or not), the bump is 'patch' and breakingChanges,
\* newEndpoints, modifiedEndpoints and deprecatedEndpoints are empty.
C3_IdenticalSnapshotsPatch ==
    (pc = "returned" /\ oldDocs = newDocs) =>
        (analysis.bumpType = "patch" /\ FourListsEmpty)

\* C3 amended: for the same snapshot as previous and current with no entry
\* flagged as breaking, the bump is 'patch' and the four lists are empty; each
\* flagged entry adds one breakingChanges entry, which makes the bump 'major',
\* and the other three lists stay empty.
C3_IdenticalUnflaggedSnapshotsPatch ==
    (pc = "returned" /\ oldDocs = newDocs) =>
        /\ Flagged(newDocs) = {} => (analysis.bumpType = "patch" /\ FourListsEmpty)
        /\ Flagged(newDocs) # {} => analysis.bumpType = "major"
        /\ Len(Changes.breakingChanges) = Cardinality(Flagged(newDocs))
        /\ Changes.newEndpoints = <<>>
        /\ Changes.modifiedEndpoints = <<>>
        /\ Changes.deprecatedEndpoints = <<>>

\* an unflagged snapshot of two entries, with a required parameter, a response
\* schema and a status code, compared with itself
C3_Witness ==
    /\ pc = "returned"
    /\ oldDocs = newDocs
    /\ Len(newDocs) = 2
    /\ Flagged(newDocs) = {}
    /\ \E i \in 1..2 : newDocs[i].parameters = Some(<<pIdPath>>)
    /\ \E i \in 1..2 : IsSome(newDocs[i].responseSchema)
    /\ Len(compared) = 2

\* C4 as claimed: an endpoint of both snapshots is in at most one class: one
\* that contributed a breakingChanges entry is in neither modifiedEndpoints nor
\* internalChanges, and one in modifiedEndpoints is not in internalChanges.
C4_AtMostOneClass ==
    pc = "returned" =>
        \A i \in 1..Len(newDocs) :
            InPrevious(newDocs[i]) =>
                LET e == EndpointText(newDocs[i])
                IN  /\ ContributedBreaking(newDocs[i]) =>
                           /\ ~Includes(Changes.modifiedEndpoints, e)
                           /\ ~Includes(Changes.internalChanges, e)
                    /\ Includes(Changes.modifiedEndpoints, e) =>
                           ~Includes(Changes.internalChanges, e)

\* C4 amended: an endpoint of both snapshots that contributed a breakingChanges
\* entry is not in modifiedEndpoints; internalChanges is independent of both: the
\* endpoint is in it exactly when the two middleware lists differ.
C4_BreakingExcludesModified ==
    pc = "returned" =>
        \A i \in 1..Len(newDocs) :
            InPrevious(newDocs[i]) =>
                LET e == EndpointText(newDocs[i])
                IN  /\ ContributedBreaking(newDocs[i]) =>
                           ~Includes(Changes.modifiedEndpoints, e)
                    /\ Includes(Changes.internalChanges, e) <=>
                           (PreviousOf(newDocs[i]).middleware # newDocs[i].middleware)

\* one endpoint both breaking and internal, another both modified and internal
C4_Witness ==
    /\ pc = "returned"
    /\ \E i \in 1..Len(newDocs) :
           /\ ContributedBreaking(newDocs[i])
           /\ Includes(Changes.internalChanges, EndpointText(newDocs[i]))
    /\ \E i \in 1..Len(newDocs) :
           /\ Includes(Changes.modifiedEndpoints, EndpointText(newDocs[i]))
           /\ Includes(Changes.internalChanges, EndpointText(newDocs[i]))

\* C5: newEndpoints lists the current endpoints absent from the previous
\* snapshot in the current order, deprecatedEndpoints the previous endpoints
\* absent from the current snapshot in the previous order; the lists share no
\* entry; and every endpoint of either snapshot is in one of the two lists or
\* is handed to _detectModifications exactly once, never both.
C5_NewAndDeprecatedPartition ==
    pc = "returned" =>
        LET NotPrevious(d) == ~InPrevious(d)
            NotCurrent(d) == ~InCurrent(d)
            Listed(d) ==
                \/ Includes(Changes.newEndpoints, EndpointText(d))
                \/ Includes(Changes.deprecatedEndpoints, EndpointText(d))
            Calls(d) == Occurrences(compared, <<d.method, ":", d.path>>)
            Texts(docs) == [i \in 1..Len(docs) |-> EndpointText(docs[i])]
        IN  /\ Changes.newEndpoints = Texts(SelectSeq(newDocs, NotPrevious))
            /\ Changes.deprecatedEndpoints = Texts(SelectSeq(oldDocs, NotCurrent))
            /\ \A i \in 1..Len(Changes.newEndpoints) :
                   ~Includes(Changes.deprecatedEndpoints, Changes.newEndpoints[i])
            /\ \A d \in Range(oldDocs) \cup Range(newDocs) :
                   IF InPrevious(d) /\ InCurrent(d)
                   THEN Calls(d) = 1 /\ ~Listed(d)
                   ELSE Calls(d) = 0 /\ Listed(d)
            /\ Len(compared) =
                   Cardinality({i \in 1..Len(newDocs) : InPrevious(newDocs[i])})

\* a new, a removed and a compared endpoint in one call
C5_Witness ==
    /\ pc = "returned"
    /\ Changes.newEndpoints # <<>>
    /\ Changes.deprecatedEndpoints # <<>>
    /\ compared # <<>>

-----------------------------------------------------------------------------
(* Properties of _detectModifications, stated on its arguments and its result *)

ParamNames == {"id", "q"}

RequiredIn(doc, name) ==
    \E i \in 1..Len(doc.parameters[1]) :
        doc.parameters[1][i].name = name /\ doc.parameters[1][i].required

ListedIn(doc, name) ==
    \E i \in 1..Len(doc.parameters[1]) : doc.parameters[1][i].name = name

NewRequiredText(doc, name) ==
    [prefix |-> "", endpoint |-> EndpointText(doc),
     text |-> ": New required parameter '" \o name \o "'", codes |-> <<>>]

SchemaChangedText(doc) ==
    [prefix |-> "", endpoint |-> EndpointText(doc),
     text |-> ": Response schema changed", codes |-> <<>>]

\* the property names of a response schema that is not null
PropertyNames(schemaOpt) ==
    IF schemaOpt[1].properties = <<>> THEN {}
    ELSE Range(schemaOpt[1].properties[1])

\* C6: a 'New required parameter' entry naming P is reported, once, for every
\* P that is required in curr and not among the required parameters of prev
\* (absent from prev or optional in it), and for no other parameter.
C6_NewRequiredParameters ==
    dpc = "returned" =>
        /\ \A name \in ParamNames :
               Occurrences(detected.breakingChanges, NewRequiredText(currDoc, name))
                   = IF RequiredIn(currDoc, name) /\ ~RequiredIn(prevDoc, name)
                     THEN 1 ELSE 0
        /\ \A i \in 1..Len(detected.breakingChanges) :
               \/ \E name \in ParamNames :
                      detected.breakingChanges[i] = NewRequiredText(currDoc, name)
               \/ detected.breakingChanges[i].text \in
                      {": Response schema changed", ": Removed status codes: ",
                       ": Marked as breaking change"}

\* a parameter that was optional in prev and is required in curr is reported
C6_Witness ==
    /\ dpc = "returned"
    /\ ListedIn(prevDoc, "q") /\ ~RequiredIn(prevDoc, "q")
    /\ RequiredIn(currDoc, "q")
    /\ Includes(detected.breakingChanges, NewRequiredText(currDoc, "q"))
    /\ RequiredIn(prevDoc, "id") /\ ListedIn(currDoc, "id")

\* C7: 'Response schema changed' is reported exactly when one of the two
\* response schemas is null and the other is not, or both are non-null and a
\* property name of prev's schema is missing from curr's; not when both are
\* null, nor when curr only adds property names.
C7_ResponseSchemaChanged ==
    dpc = "returned" =>
        LET old == prevDoc.responseSchema
            new == currDoc.responseSchema
            changed ==
                \/ (old = <<>>) # (new = <<>>)
                \/ /\ old # <<>>
                   /\ new # <<>>
                   /\ ~(PropertyNames(old) \subseteq PropertyNames(new))
        IN  /\ Includes(detected.breakingChanges, SchemaChangedText(currDoc)) <=> changed
            /\ Occurrences(detected.breakingChanges, SchemaChangedText(currDoc)) <= 1
            /\ changed => detected.hasBreakingChanges

\* curr adds a property name to a non-null schema and nothing is reported
C7_Witness ==
    /\ dpc = "returned"
    /\ prevDoc.responseSchema = Schema(Some(<<"x">>))
    /\ currDoc.responseSchema = Schema(Some(<<"x", "y">>))
    /\ ~Includes(detected.breakingChanges, SchemaChangedText(currDoc))
    /\ ~detected.hasBreakingChanges

-----------------------------------------------------------------------------
(* Properties of analyzeChanges, continued *)

\* the four breaking rules of the comparison of prev with curr
NewRequiredRule(prev, curr) ==
    \E i \in 1..Len(curr.parameters[1]) :
        /\ curr.parameters[1][i].required
        /\ ~RequiredIn(prev, curr.parameters[1][i].name)

SchemaRule(prev, curr) ==
    \/ (prev.responseSchema = <<>>) # (curr.responseSchema = <<>>)
    \/ /\ prev.responseSchema # <<>>
       /\ curr.responseSchema # <<>>
       /\ ~(PropertyNames(prev.responseSchema) \subseteq PropertyNames(curr.responseSchema))

CodesOf(doc) == IF doc.statusCodes = <<>> THEN {} ELSE Range(doc.statusCodes[1])

StatusCodeRule(prev, curr) == ~(CodesOf(prev) \subseteq CodesOf(curr))

FlagRule(prev, curr) == curr.breakingChange

\* C8: an endpoint of both snapshots is in modifiedEndpoints if and only if the
\* two parameter lists differ in length and none of the four breaking rules
\* fired for it.
C8_ModifiedIffCountDiffers ==
    pc = "returned" =>
        \A i \in 1..Len(newDocs) :
            InPrevious(newDocs[i]) =>
                LET curr == newDocs[i]
                    prev == PreviousOf(curr)
                IN  Includes(Changes.modifiedEndpoints, EndpointText(curr)) <=>
                        /\ Len(prev.parameters[1]) # Len(curr.parameters[1])
                        /\ ~NewRequiredRule(prev, curr)
                        /\ ~SchemaRule(prev, curr)
                        /\ ~StatusCodeRule(prev, curr)
                        /\ ~FlagRule(prev, curr)

\* one endpoint lost a parameter and is modified; another changed its parameter
\* count too but lost its response schema, and is breaking instead
C8_Witness ==
    /\ pc = "returned"
    /\ \E i \in 1..Len(newDocs) :
           /\ InPrevious(newDocs[i])
           /\ Len(PreviousOf(newDocs[i]).parameters[1]) > Len(newDocs[i].parameters[1])
           /\ Includes(Changes.modifiedEndpoints, EndpointText(newDocs[i]))
    /\ \E i \in 1..Len(newDocs) :
           /\ InPrevious(newDocs[i])
           /\ Len(PreviousOf(newDocs[i]).parameters[1]) # Len(newDocs[i].parameters[1])
           /\ SchemaRule(PreviousOf(newDocs[i]), newDocs[i])
           /\ ~Includes(Changes.modifiedEndpoints, EndpointText(newDocs[i]))

\* C9 as claimed: analyzeChanges never raises; it returns a result also when an
\* entry of both snapshots lacks parameters, responseSchema, statusCodes or
\* middleware.
C9_NeverRaises == pc # "threw"

-----------------------------------------------------------------------------
(* Properties of bumpVersion *)

\* X + 1 for the components tried
Successor(x) ==
    CASE x = <<"0">> -> <<"1">>
      [] x = <<"4">> -> <<"5">>
      [] x = <<"9">> -> <<"1", "0">>
      [] x = <<"1", "9">> -> <<"2", "0">>
      [] x = <<"9", "9">> -> <<"1", "0", "0">>
      [] x = <<"9", "0", "0", "7", "1", "9", "9", "2", "5", "4", "7", "4", "0", "9", "9", "1">>
           -> <<"9", "0", "0", "7", "1", "9", "9", "2", "5", "4", "7", "4", "0", "9", "9", "2">>
      [] x = <<"9", "0", "0", "7", "1", "9", "9", "2", "5", "4", "7", "4", "0", "9", "9", "2">>
           -> <<"9", "0", "0", "7", "1", "9", "9", "2", "5", "4", "7", "4", "0", "9", "9", "3">>

Zero == <<"0">>

Bumped(x, y, z, type) ==
    CASE type = "major" -> Successor(x) \o <<".">> \o Zero \o <<".">> \o Zero
      [] type = "minor" -> x \o <<".">> \o Successor(y) \o <<".">> \o Zero
      [] type = "patch" -> x \o <<".">> \o y \o <<".">> \o Successor(z)

\* the integers up to Number.MAX_SAFE_INTEGER (2^53 - 1) among the components
SafeComponents == Components \ {TwoTo53}

\* C10 as claimed: for all non-negative integers X, Y, Z, with or without a
\* leading 'v', bumpVersion returns (X+1).0.0, X.(Y+1).0 or X.Y.(Z+1), without
\* the prefix.
C10_BumpVersionIncrements ==
    bpc = "returned" =>
        \A pre \in Prefixes, x \in Components, y \in Components, z \in Components :
            currentVersion = pre \o x \o <<".">> \o y \o <<".">> \o z =>
                newVersion = <<Bumped(x, y, z, bumpType)>>

\* C10 amended: the same for X, Y, Z up to Number.MAX_SAFE_INTEGER (2^53 - 1);
\* with a component above it bumpVersion returns null.
C10_BumpVersionIncrementsSafe ==
    bpc = "returned" =>
        \A pre \in Prefixes, x \in Components, y \in Components, z \in Components :
            currentVersion = pre \o x \o <<".">> \o y \o <<".">> \o z =>
                IF {x, y, z} \subseteq SafeComponents
                THEN newVersion = <<Bumped(x, y, z, bumpType)>>
                ELSE newVersion = <<>>

\* v9.99.19 bumped to 9.100.0: the prefix goes, the carry lengthens MINOR
C10_Witness ==
    /\ bpc = "returned"
    /\ currentVersion = <<"v", "9", ".", "9", "9", ".", "1", "9">>
    /\ bumpType = "minor"
    /\ newVersion = << <<"9", ".", "1", "0", "0", ".", "0">> >>

-----------------------------------------------------------------------------
(* Properties of _cleanPath and _extractPathParameters *)

\* C15: path cleaning is idempotent: cleaning a cleaned path gives the
\* cleaned path back, for every raw path.
C15_CleanPathIdempotent ==
    IsSome(recleaned) => Get(recleaned) = Get(cleaned)

\* C16: for every raw path the cleaned path begins with exactly one '/',
\* holds no repeated '/', and ends with '/' only when it is the root '/';
\* '/api//users///' cleans to '/api/users'.
C16_CleanPathNormalForm ==
    IsSome(cleaned) =>
        LET p == Get(cleaned)
        IN  /\ p # <<>> /\ p[1] = "/"
            /\ \A i \in 1..(Len(p) - 1) : ~(p[i] = "/" /\ p[i + 1] = "/")
            /\ p[Len(p)] = "/" => p = <<"/">>
            /\ rawPath = ApiUsersRaw =>
                   p = <<"/", "a", "p", "i", "/", "u", "s", "e", "r", "s">>

\* the positions of the ':name' tokens of a path, and the name at a position
TokenStarts(p) ==
    {i \in 1..(Len(p) - 1) : p[i] = ":" /\ p[i + 1] \in IdentifierStart}
TokenName(p, i) ==
    LET ends == {j \in (i + 1)..Len(p) :
                    \A k \in (i + 1)..j : p[k] \in IdentifierPart}
    IN  SubSeq(p, i + 1, CHOOSE j \in ends : \A k \in ends : k <= j)
\* the names of the tokens of p whose name no earlier token has
FirstOccurrences(p) ==
    {i \in TokenStarts(p) :
        \A j \in TokenStarts(p) : j < i => TokenName(p, j) # TokenName(p, i)}

\* C17: the parameter list extracted from the cleaned path holds exactly the
\* ':name' tokens of the raw path, in the order of their first occurrence
\* and without duplicates; '/a/:id/b/:id' yields ['id'].
C17_ParametersAreTheTokensOnce ==
    IsSome(routeParameters) =>
        LET params == Get(routeParameters)
            first == FirstOccurrences(rawPath)
        IN  /\ \A i, j \in 1..Len(params) : i # j => params[i] # params[j]
            /\ Len(params) = Cardinality(first)
            /\ \A i \in first :
                   \E k \in 1..Len(params) :
                       /\ params[k] = TokenName(rawPath, i)
                       /\ k = 1 + Cardinality({j \in first : j < i})
            /\ rawPath = RepeatedId => params = << <<"i", "d">> >>

-----------------------------------------------------------------------------
(* Properties of extractRoutes, stated on the routing tree and this.routes *)

\* the root argument has a router
HasRouter == app # None /\ Get(app)._router # None
RootStack == Get(Get(Get(app)._router).stack)

\* the terminal handler tail of a mount pattern: \/?(?=\/|$)
MountTail == <<"\\", "/", "?", "(", "?", "=", "\\", "/", "|", "$", ")">>

\* the literal prefix a mounting node was mounted at: its pattern source
\* ^\/seg1\/seg2\/?(?=\/|$) read back as /seg1/seg2; empty without a pattern
LiteralPrefix(layer) ==
    IF layer.regexp = None THEN <<>>
    ELSE LET source == Get(layer.regexp).source
             n == Len(source) - Len(MountTail)
         IN  IF n >= 1 /\ source[1] = "^" /\ SubSeq(source, n + 1, Len(source)) = MountTail
             THEN SelectSeq(SubSeq(source, 2, n), LAMBDA c : c # "\\")
             ELSE <<>>

IsMount(layer) == layer.route = None /\ layer.name = "router" /\ HasStack(layer)
IsPassThrough(layer) ==
    layer.route = None /\ layer.name = "bound dispatch" /\ HasStack(layer)

\* the methods a terminal route declares, in declaration order
MethodsOf(route) == SelectSeq(route.methods, LAMBDA m : m.on)

\* the (terminal route, declared method) pairs reachable from a stack through
\* mounting and pass-through nodes, depth first in registration order, each
\* with the concatenation of the literal prefixes of its enclosing mounts
RECURSIVE Reachable(_, _)
RECURSIVE ReachableFrom(_, _)
ReachableFrom(layer, prefix) ==
    IF IsSome(layer.route)
    THEN [i \in 1..Len(MethodsOf(Get(layer.route))) |->
             [route |-> Get(layer.route),
              method |-> MethodsOf(Get(layer.route))[i].name,
              prefix |-> prefix]]
    ELSE IF IsMount(layer)
         THEN Reachable(Get(Get(layer.handle).stack), prefix \o LiteralPrefix(layer))
         ELSE IF IsPassThrough(layer)
              THEN Reachable(Get(Get(layer.handle).stack), prefix)
              ELSE <<>>
Reachable(stack, prefix) ==
    IF stack = <<>> THEN <<>>
    ELSE ReachableFrom(Head(stack), prefix) \o Reachable(Tail(stack), prefix)

\* C18: a terminal route registered under mounting nodes is emitted with path
\* clean(prefix + routePath), prefix being the concatenation of the literal
\* mount prefixes of all enclosing mounting nodes: '/:id' in a router mounted
\* at '/api/users' is reported as '/api/users/:id'.
C18_PathCarriesMountPrefixes ==
    (wpc = "returned" /\ docpc = "idle") =>
        LET expected == Reachable(RootStack, <<>>)
        IN  /\ Len(routes) = Len(expected)
            /\ \A i \in 1..Len(routes) :
                   routes[i].path =
                       _cleanPath(expected[i].prefix \o expected[i].route.path)

\* C19: extractRoutes throws only when the root argument is null or has no
\* router; with a router, a node-level defect never aborts the walk and every
\* route of the tree that declares a method is emitted.
C19_ThrowsOnlyOnInvalidRoot ==
    (wpc \in {"returned", "threw"} /\ docpc = "idle") =>
        /\ wpc = "threw" <=> ~HasRouter
        /\ HasRouter => Len(routes) = Len(Reachable(RootStack, <<>>))

\* a tree none of whose nodes is defective: every mounting node has a pattern,
\* every terminal route a handler chain whose last entry, if any, has its
\* function
RECURSIVE Sound(_)
SoundLayer(layer) ==
    IF IsSome(layer.route)
    THEN /\ Get(layer.route).stack # None
         /\ LET chain == Get(Get(layer.route).stack)
            IN  chain # <<>> => chain[Len(chain)].handle # None
    ELSE IF IsMount(layer)
         THEN layer.regexp # None /\ Sound(Get(Get(layer.handle).stack))
         ELSE IsPassThrough(layer) => Sound(Get(Get(layer.handle).stack))
Sound(stack) == \A i \in 1..Len(stack) : SoundLayer(stack[i])

\* the names of all entries of a handler chain except the last, in chain order
AllButLast(chain) ==
    [j \in 1..(Len(chain) - 1) |->
        IF chain[j].name = "" THEN "anonymous" ELSE chain[j].name]

\* C20: for every routing tree, extractRoutes terminates and emits exactly one
\* RouteDescriptor for each (terminal route, declared method) pair reachable
\* through mounting and pass-through nodes, in depth-first registration
\* order, with middleware the names of all handler-chain entries except the
\* last, in chain order.
C20_OneDescriptorPerRouteAndMethod ==
    (wpc # "ready" /\ docpc = "idle" /\ HasRouter /\ Sound(RootStack)) =>
        LET expected == Reachable(RootStack, <<>>)
        IN  /\ wpc = "returned"
            /\ Len(routes) = Len(expected)
            /\ \A i \in 1..Len(routes) :
                   /\ routes[i].method = ToUpperCase(expected[i].method)
                   /\ routes[i].middleware =
                          AllButLast(Get(expected[i].route.stack))
                   /\ routes[i].routeParameters =
                          _extractPathParameters(routes[i].path)

\* a mounted router holding a terminal route behind two middleware entries
\* and a pass-through node, next to a route declaring two methods: all five
\* descriptors were emitted
C20_Witness ==
    /\ wpc = "returned"
    /\ docpc = "idle"
    /\ HasRouter
    /\ Sound(RootStack)
    /\ Len(RootStack) = 2
    /\ IsMount(RootStack[1])
    /\ \E i \in 1..Len(Get(Get(RootStack[1].handle).stack)) :
           IsPassThrough(Get(Get(RootStack[1].handle).stack)[i])
    /\ IsSome(RootStack[2].route)
    /\ Len(DeclaredMethods(Get(RootStack[2].route))) = 2
    /\ Len(routes) = 5
    /\ routes[1].middleware = <<"authenticate", "anonymous">>
    /\ routes[1].handlerName = "getUserById"
    /\ routes[4].method = "GET"
    /\ routes[5].method = "POST"

-----------------------------------------------------------------------------
(* Properties of buildDocumentation, stated on this.routes and the         *)
(* documentation array                                                     *)

Building == docpc \in {"building", "returned"}

\* parameters holds a required path parameter of that name
ListsPathParameter(doc, name) ==
    \E k \in 1..Len(doc.parameters) :
        /\ doc.parameters[k].name = name
        /\ doc.parameters[k].in = "path"
        /\ doc.parameters[k].required

\* the names of the ':name' tokens of a path
TokenNames(p) == {TokenName(p, i) : i \in TokenStarts(p)}

\* a Documentation with path parameters only and an error marker
IsMinimal(doc) ==
    /\ \A k \in 1..Len(doc.parameters) :
           /\ doc.parameters[k].in = "path"
           /\ doc.parameters[k].name \in TokenNames(doc.path)
    /\ \A name \in TokenNames(doc.path) : ListsPathParameter(doc, name)
    /\ doc.requestSchema = None
    /\ doc.responseSchema = None
    /\ doc.statusCodes = <<>>
    /\ IsSome(doc.metadata.error)

\* C11: buildDocumentation returns exactly one Documentation per
\* RouteDescriptor of extractRoutes, in the same order and with the same
\* method and path; the slot of a route whose assembly threw holds the
\* minimal Documentation, and the other routes are documented all the same.
C11_OneDocumentationPerRoute ==
    Building =>
        /\ Len(documentation) = visited
        /\ docpc = "returned" => Len(documentation) = Len(routes)
        /\ \A i \in 1..Len(documentation) :
               /\ documentation[i].method = routes[i].method
               /\ documentation[i].path = routes[i].path
               /\ i \in caught => IsMinimal(documentation[i])
               /\ i \notin caught => documentation[i].metadata.error = None

\* three routes, the assembly of the second threw, the third was documented
\* from its analysis
C11_Witness ==
    /\ docpc = "returned"
    /\ Len(routes) = 3
    /\ caught = {2}
    /\ IsMinimal(documentation[2])
    /\ Analysed(routes[3])
    /\ \E k \in 1..Len(documentation[3].parameters) :
           documentation[3].parameters[k].in = "body"

\* C12: every Documentation produced for a route (normal or minimal, with or
\* without handler source, with or without a successful analysis) lists each
\* path parameter declared in the route path with location 'path' and
\* required = true; '/users/:id/posts/:postId' yields id and postId.
C12_PathParametersAlwaysListed ==
    Building =>
        \A i \in 1..Len(documentation) :
            /\ \A name \in TokenNames(routes[i].path) :
                   ListsPathParameter(documentation[i], name)
            /\ routes[i].path = UserPosts =>
                   /\ ListsPathParameter(documentation[i], <<"i", "d">>)
                   /\ ListsPathParameter(documentation[i], <<"p", "o", "s", "t", "I", "d">>)

\* /users/:id/posts/:postId documented twice: minimally, and normally for a
\* route without handler source
C12_Witness ==
    /\ docpc = "returned"
    /\ Len(documentation) = 2
    /\ routes[1].path = UserPosts
    /\ routes[2].path = UserPosts
    /\ 1 \in caught
    /\ 2 \notin caught
    /\ routes[2].functionSource = None
    /\ Len(documentation[2].parameters) = 2

\* the source of the route's handler failed to parse
ParseFailed(route) ==
    /\ IsSome(route.functionSource)
    /\ analyzeCode(Get(route.functionSource)).errors # <<>>

\* C13: when a route's handler source fails to parse, the Documentation of
\* that route has its path parameters populated and carries an error marker
\* in its metadata.
C13_ParseFailureIsMarked ==
    Building =>
        \A i \in 1..Len(documentation) :
            ParseFailed(routes[i]) =>
                /\ \A name \in TokenNames(routes[i].path) :
                       ListsPathParameter(documentation[i], name)
                /\ IsSome(documentation[i].metadata.error)

\* C14: in every Documentation the assembler produces, no two entries of
\* parameters share the same (name, location).
C14_ParametersDeduplicated ==
    Building =>
        \A i \in 1..Len(documentation) :
            \A j, k \in 1..Len(documentation[i].parameters) :
                j # k =>
                    ~(/\ documentation[i].parameters[j].name =
                             documentation[i].parameters[k].name
                      /\ documentation[i].parameters[j].in =
                             documentation[i].parameters[k].in)

-----------------------------------------------------------------------------
(* ASTAnalyzer._analyzeFunctionNode and the visitors of its traversal.     *)
(*                                                                         *)
(* A node of the syntax tree is [type, name, value, kids]: name is the     *)
(* name of an Identifier (<<>> elsewhere, for undefined), value the value  *)
(* of a literal, kids the child nodes in the order the traversal visits    *)
(* them (object, property; callee, arguments; id, init; key, value; the    *)
(* properties; the elements; the argument).  A function node is            *)
(* [type, id, async, params, body].                                        *)
(* A JavaScript value is [typeof, text] for a primitive (text being the    *)
(* characters of its string form, typeof "null" standing for null),        *)
(* [typeof |-> "object", entries |-> <<[key, value], ...>>] for an object  *)
(* with its own properties in enumeration order, and                       *)
(* [typeof |-> "array", elements |-> <<...>>] for an array.                *)

\* _extractLiteralValue(node); node is an option, None for undefined
_extractLiteralValue(n) ==
    IF n = None THEN [typeof |-> "null", text |-> <<>>]
    ELSE CASE Get(n).type \in {"StringLiteral", "NumericLiteral", "BooleanLiteral"} ->
                  Get(n).value
           [] Get(n).type = "TemplateLiteral" ->
                  [typeof |-> "string", text |-> <<"t", "e", "m", "p", "l", "a", "t", "e", "_", "s", "t", "r", "i", "n", "g">>]
           [] Get(n).type = "Identifier" ->
                  [typeof |-> "string", text |-> <<"v", "a", "r", ":">> \o Get(n).name]
           [] Get(n).type = "NullLiteral" -> [typeof |-> "null", text |-> <<>>]
           [] OTHER -> [typeof |-> "string", text |-> <<"c", "o", "m", "p", "l", "e", "x", "_", "e", "x", "p", "r", "e", "s", "s", "i", "o", "n">>]

\* _extractObjectStructure(node); node is an option.  The keys of the
\* literals at hand are identifiers (prop.key.name)
RECURSIVE _extractObjectStructure(_)
_extractObjectStructure(n) ==
    LET \* obj[key] = value: an own key keeps its place, a new one goes last
        SetProperty(entries, key, value) ==
            IF \E i \in 1..Len(entries) : entries[i].key = key
            THEN [i \in 1..Len(entries) |->
                     IF entries[i].key = key THEN [key |-> key, value |-> value]
                     ELSE entries[i]]
            ELSE Append(entries, [key |-> key, value |-> value])
        RECURSIVE ForEachProperty(_, _)
        ForEachProperty(properties, obj) ==
            IF properties = <<>> THEN obj
            ELSE ForEachProperty(
                     Tail(properties),
                     IF Head(properties).type \in {"ObjectProperty", "ObjectMethod"}
                     THEN SetProperty(
                              obj, Head(properties).kids[1].name,
                              IF _extractLiteralValue(Some(Head(properties).kids[2])).typeof = "null"
                              THEN [typeof |-> "string", text |-> <<"u", "n", "k", "n", "o", "w", "n">>]
                              ELSE _extractLiteralValue(Some(Head(properties).kids[2])))
                     ELSE IF Head(properties).type = "SpreadElement"
                          THEN SetProperty(obj, <<".", ".", ".", "s", "p", "r", "e", "a", "d">>,
                                           [typeof |-> "string", text |-> <<"o", "b", "j", "e", "c", "t">>])
                          ELSE obj)
    IN  IF n # None /\ Get(n).type = "ObjectExpression"
        THEN [typeof |-> "object", entries |-> ForEachProperty(Get(n).kids, <<>>)]
        ELSE IF n # None /\ Get(n).type = "ArrayExpression"
             THEN [typeof |-> "array",
                   elements |-> [i \in 1..Len(Get(n).kids) |->
                                    _extractObjectStructure(Some(Get(n).kids[i]))]]
             ELSE _extractLiteralValue(n)

\* _analyzeMemberExpression(path, analysis): the two checks exclude each
\* other on node.object; a is the analysis so far
_analyzeMemberExpression(n, a) ==
    LET \* node.property.name || node.property.value, as characters
        FieldOf(property) ==
            IF property.name # <<>>
            THEN Some(property.name)
            ELSE IF property.type \in {"StringLiteral", "NumericLiteral"}
                    /\ property.value.text \notin {<<>>, <<"0">>}
                 THEN Some(property.value.text)
                 ELSE None
        \* the field of requestUsage a request sub-object goes to, if any
        UsageOf(property) ==
            CASE property.name = <<"b", "o", "d", "y">> -> Some("body")
              [] property.name = <<"q", "u", "e", "r", "y">> -> Some("query")
              [] property.name = <<"p", "a", "r", "a", "m", "s">> -> Some("params")
              [] property.name = <<"h", "e", "a", "d", "e", "r", "s">> -> Some("headers")
              [] OTHER -> None
        IsRequest(object) ==
            object.type = "Identifier" /\ object.name \in {<<"r", "e", "q">>, <<"r", "e", "q", "u", "e", "s", "t">>}
    IN  IF n.kids[1].type = "MemberExpression" /\ IsRequest(n.kids[1].kids[1])
        THEN IF IsSome(UsageOf(n.kids[1].kids[2])) /\ IsSome(FieldOf(n.kids[2]))
             THEN [a EXCEPT !.requestUsage[Get(UsageOf(n.kids[1].kids[2]))] =
                                Append(@, Get(FieldOf(n.kids[2])))]
             ELSE a
        ELSE IF /\ IsRequest(n.kids[1])
                /\ UsageOf(n.kids[2]) \in {Some("body"), Some("query"), Some("params")}
             THEN [a EXCEPT !.requestUsage[Get(UsageOf(n.kids[2]))] = Append(@, ALL)]
             ELSE a

\* { status: statusCode, ...structure }: the own enumerable properties of
\* structure are copied over the status entry; those of an array or a
\* string are its indexes, which enumerate before every other key
WithStatus(statusCode, structure) ==
    LET Digit == <<"0", "1", "2", "3", "4", "5", "6", "7", "8", "9">>
        Index(k) == IF k < 10 THEN <<Digit[k + 1]>>
                    ELSE <<Digit[(k \div 10) + 1], Digit[(k % 10) + 1]>>
        status == [key |-> <<"s", "t", "a", "t", "u", "s">>, value |-> statusCode]
    IN  [typeof |-> "object",
         entries |->
             CASE structure.typeof = "object" ->
                      IF \E i \in 1..Len(structure.entries) :
                             structure.entries[i].key = <<"s", "t", "a", "t", "u", "s">>
                      THEN SelectSeq(structure.entries, LAMBDA e : e.key = <<"s", "t", "a", "t", "u", "s">>)
                           \o SelectSeq(structure.entries, LAMBDA e : e.key # <<"s", "t", "a", "t", "u", "s">>)
                      ELSE <<status>> \o structure.entries
               [] structure.typeof = "array" ->
                      [i \in 1..Len(structure.elements) |->
                          [key |-> Index(i - 1), value |-> structure.elements[i]]]
                      \o <<status>>
               [] structure.typeof = "string" ->
                      [i \in 1..Len(structure.text) |->
                          [key |-> Index(i - 1),
                           value |-> [typeof |-> "string", text |-> <<structure.text[i]>>]]]
                      \o <<status>>
               [] OTHER -> <<status>>]

\* _analyzeCallExpression(path, analysis): the four checks exclude each
\* other on the method name and on the type of the callee's object
_analyzeCallExpression(n, a) ==
    LET \* node.arguments[0]; the callee is the first kid of a call
        FirstArgument(call) == IF Len(call.kids) >= 2 THEN Some(call.kids[2]) ELSE None
        \* if (statusCode): null, 0, '' and false are not pushed
        Truthy(v) ==
            ~ \/ v.typeof = "null"
              \/ v.typeof = "number" /\ v.text = <<"0">>
              \/ v.typeof = "string" /\ v.text = <<>>
              \/ v.typeof = "boolean" /\ v.text = <<"f", "a", "l", "s", "e">>
        IsResponse(object) ==
            object.type = "Identifier" /\ object.name \in {<<"r", "e", "s">>, <<"r", "e", "s", "p", "o", "n", "s", "e">>}
    IN  IF n.kids[1].type # "MemberExpression" THEN a
        ELSE IF IsResponse(n.kids[1].kids[1])
        THEN CASE n.kids[1].kids[2].name = <<"j", "s", "o", "n">> /\ IsSome(FirstArgument(n)) ->
                      [a EXCEPT !.responseUsage.jsonCalls =
                                    Append(@, _extractObjectStructure(FirstArgument(n))),
                                !.responseUsage.structures =
                                    Append(@, _extractObjectStructure(FirstArgument(n)))]
               [] n.kids[1].kids[2].name = <<"s", "t", "a", "t", "u", "s">>
                  /\ Truthy(_extractLiteralValue(FirstArgument(n))) ->
                      [a EXCEPT !.responseUsage.statusCodes =
                                    Append(@, _extractLiteralValue(FirstArgument(n)))]
               [] n.kids[1].kids[2].name = <<"s", "e", "n", "d">> /\ IsSome(FirstArgument(n)) ->
                      [a EXCEPT !.responseUsage.sendCalls =
                                    Append(@, _extractObjectStructure(FirstArgument(n)))]
               [] OTHER -> a
        ELSE IF /\ n.kids[1].kids[1].type = "CallExpression"
                /\ n.kids[1].kids[1].kids[1].type = "MemberExpression"
                /\ n.kids[1].kids[1].kids[1].kids[2].name = <<"s", "t", "a", "t", "u", "s">>
                /\ n.kids[1].kids[2].name = <<"j", "s", "o", "n">>
             THEN [a EXCEPT
                     !.responseUsage.statusCodes =
                         IF Truthy(_extractLiteralValue(FirstArgument(n.kids[1].kids[1])))
                         THEN Append(@, _extractLiteralValue(FirstArgument(n.kids[1].kids[1])))
                         ELSE @,
                     !.responseUsage.structures =
                         Append(@, WithStatus(
                                       _extractLiteralValue(FirstArgument(n.kids[1].kids[1])),
                                       _extractObjectStructure(FirstArgument(n))))]
             ELSE a

\* traverse.default(node, visitors): the nodes are entered in depth-first
\* order, a node before its kids; nodes is the stack of the nodes still to
\* enter.  The functions at hand hold no throw statement
RECURSIVE Traverse(_, _)
Traverse(nodes, a) ==
    IF nodes = <<>> THEN a
    ELSE Traverse(
             Head(nodes).kids \o Tail(nodes),
             CASE Head(nodes).type = "MemberExpression" ->
                      _analyzeMemberExpression(Head(nodes), a)
               [] Head(nodes).type = "CallExpression" ->
                      _analyzeCallExpression(Head(nodes), a)
               [] Head(nodes).type = "ReturnStatement" /\ Head(nodes).kids # <<>> ->
                      [a EXCEPT !.returnValues =
                           Append(@, _extractObjectStructure(Some(Head(nodes).kids[1])))]
               [] OTHER -> a)

\* _analyzeFunctionNode(node, code, customName); customName is an option.
\* The parameters at hand are identifiers
_analyzeFunctionNode(n, customName) ==
    Traverse(n.params \o <<n.body>>,
             [name |-> IF IsSome(customName) THEN Get(customName)
                       ELSE IF IsSome(n.id) THEN Get(n.id) ELSE <<"a", "n", "o", "n", "y", "m", "o", "u", "s">>,
              isAsync |-> n.async,
              isArrow |-> n.type = "ArrowFunctionExpression",
              isClass |-> n.type = "ClassMethod",
              parameters |-> [i \in 1..Len(n.params) |->
                                 [name |-> n.params[i].name, type |-> "identifier"]],
              requestUsage |-> [body |-> <<>>, query |-> <<>>, params |-> <<>>,
                                headers |-> <<>>],
              responseUsage |-> [statusCodes |-> <<>>, jsonCalls |-> <<>>,
                                 sendCalls |-> <<>>, structures |-> <<>>],
              errors |-> [thrown |-> <<>>, statusCodes |-> <<>>],
              returnValues |-> <<>>,
              middlewareChecks |-> <<>>])

-----------------------------------------------------------------------------
(* Handlers handed to _analyzeFunctionNode *)

Node(type, name, value, kids) ==
    [type |-> type, name |-> name, value |-> value, kids |-> kids]

Null == [typeof |-> "null", text |-> <<>>]
Id(name) == Node("Identifier", name, Null, <<>>)
Str(text) == Node("StringLiteral", <<>>, [typeof |-> "string", text |-> text], <<>>)
Num(text) == Node("NumericLiteral", <<>>, [typeof |-> "number", text |-> text], <<>>)
Bool(text) == Node("BooleanLiteral", <<>>, [typeof |-> "boolean", text |-> text], <<>>)
Member(object, property) == Node("MemberExpression", <<>>, Null, <<object, Id(property)>>)
Call(callee, arguments) == Node("CallExpression", <<>>, Null, <<callee>> \o arguments)
Property(key, value) == Node("ObjectProperty", <<>>, Null, <<Id(key), value>>)
Object(properties) == Node("ObjectExpression", <<>>, Null, properties)
\* const <id> = <init>;
Const(id, init) ==
    Node("VariableDeclaration", <<>>, Null,
         <<Node("VariableDeclarator", <<>>, Null, <<id, init>>)>>)
\* { a, b }
Pattern(keys) ==
    Node("ObjectPattern", <<>>, Null,
         [i \in 1..Len(keys) |-> Property(keys[i], Id(keys[i]))])
Statement(expression) == Node("ExpressionStatement", <<>>, Null, <<expression>>)
\* res.status(<code>).json(<argument>);
StatusJson(code, argument) ==
    Statement(Call(Member(Call(Member(Id(<<"r", "e", "s">>), <<"s", "t", "a", "t", "u", "s">>), <<Num(code)>>), <<"j", "s", "o", "n">>),
                   <<argument>>))

\* the statements a handler body is made of
Statements ==
    { Const(Pattern(<<<<"n", "a", "m", "e">>, <<"e", "m", "a", "i", "l">>>>), Member(Id(<<"r", "e", "q">>), <<"b", "o", "d", "y">>)),
      Const(Pattern(<<<<"p", "a", "g", "e">>, <<"l", "i", "m", "i", "t">>>>), Member(Id(<<"r", "e", "q">>), <<"q", "u", "e", "r", "y">>)),
      Const(Id(<<"e", "m", "a", "i", "l">>), Member(Member(Id(<<"r", "e", "q">>), <<"b", "o", "d", "y">>), <<"e", "m", "a", "i", "l">>)),
      Const(Id(<<"i", "d">>), Member(Member(Id(<<"r", "e", "q", "u", "e", "s", "t">>), <<"p", "a", "r", "a", "m", "s">>), <<"i", "d">>)),
      Const(Id(<<"t", "o", "k", "e", "n">>), Member(Member(Id(<<"r", "e", "q">>), <<"h", "e", "a", "d", "e", "r", "s">>), <<"a", "u", "t", "h", "o", "r", "i", "z", "a", "t", "i", "o", "n">>)),
      Const(Id(<<"h">>), Member(Id(<<"r", "e", "q">>), <<"h", "e", "a", "d", "e", "r", "s">>)),
      Const(Id(<<"q">>), Member(Id(<<"r", "e", "q">>), <<"q", "u", "e", "r", "y">>)),
      Const(Id(<<"n">>), Member(Member(Id(<<"c", "t", "x">>), <<"b", "o", "d", "y">>), <<"n", "a", "m", "e">>)),
      Statement(Call(Member(Id(<<"r", "e", "s">>), <<"j", "s", "o", "n">>),
                     <<Object(<<Property(<<"o", "k">>, Bool(<<"t", "r", "u", "e">>))>>)>>)),
      StatusJson(<<"2", "0", "1">>, Object(<<Property(<<"i", "d">>, Num(<<"1">>))>>)),
      StatusJson(<<"4", "0", "4">>, Object(<<Property(<<"s", "t", "a", "t", "u", "s">>, Str(<<"e", "r", "r", "o", "r">>)),
                                 Property(<<"m", "e", "s", "s", "a", "g", "e">>,
                                          Node("TemplateLiteral", <<>>, Null, <<>>))>>)),
      StatusJson(<<"2", "0", "0">>, Id(<<"u", "s", "e", "r">>)),
      \* res.json({ user: { id: 1 }, tags: ['a'], ...rest, deleted: null,
      \*            count: n, total: count() });
      Statement(Call(Member(Id(<<"r", "e", "s">>), <<"j", "s", "o", "n">>),
                     <<Object(<<Property(<<"u", "s", "e", "r">>, Object(<<Property(<<"i", "d">>, Num(<<"1">>))>>)),
                                Property(<<"t", "a", "g", "s">>, Node("ArrayExpression", <<>>, Null,
                                                      <<Str(<<"a">>)>>)),
                                Node("SpreadElement", <<>>, Null, <<Id(<<"r", "e", "s", "t">>)>>),
                                Property(<<"d", "e", "l", "e", "t", "e", "d">>, Node("NullLiteral", <<>>, Null, <<>>)),
                                Property(<<"c", "o", "u", "n", "t">>, Id(<<"n">>)),
                                Property(<<"t", "o", "t", "a", "l">>, Call(Id(<<"c", "o", "u", "n", "t">>), <<>>))>>)>>)),
      \* res.json([{ id: 1 }, 'x']);
      Statement(Call(Member(Id(<<"r", "e", "s">>), <<"j", "s", "o", "n">>),
                     <<Node("ArrayExpression", <<>>, Null,
                            <<Object(<<Property(<<"i", "d">>, Num(<<"1">>))>>), Str(<<"x">>)>>)>>)),
      Statement(Call(Member(Id(<<"r", "e", "s">>), <<"s", "e", "n", "d">>), <<Str(<<"o", "k">>)>>)),
      Node("ReturnStatement", <<>>, Null,
           <<Object(<<Property(<<"s", "e", "n", "t">>, Bool(<<"t", "r", "u", "e">>))>>)>>) }

MaxStatements == 2

\* async (req, res) => { <statements> }
FunctionNodes ==
    { [type |-> "ArrowFunctionExpression", id |-> None, async |-> TRUE,
       params |-> <<Id(<<"r", "e", "q">>), Id(<<"r", "e", "s">>)>>,
       body |-> Node("BlockStatement", <<>>, Null, statements)] :
      statements \in UNION {[1..k -> Statements] : k \in 1..MaxStatements} }

-----------------------------------------------------------------------------
(* Specification of _analyzeFunctionNode *)

\* the state after construction: no operation of any component has run
Constructed ==
    /\ AnalyzeIdle
    /\ DetectIdle
    /\ BumpIdle
    /\ PathIdle
    /\ WalkIdle
    /\ BuildIdle
    /\ ServicesIdle

AnalyzeFunctionNode ==
    /\ apc = "idle"
    /\ \E n \in FunctionNodes :
           /\ fnNode' = Some(n)
           /\ fnAnalysis' = Some(_analyzeFunctionNode(n, None))
    /\ apc' = "returned"
    /\ UNCHANGED <<analyzeVars, detectVars, bumpVars, pathVars, walkVars, buildVars>>
    /\ UNCHANGED <<enhancerVars, enhanceVars, batchVars, dbVars>>

NextAst == AnalyzeFunctionNode

SpecAst == Constructed /\ [][NextAst]_vars

-----------------------------------------------------------------------------
(* Properties of _analyzeFunctionNode, stated on the handler's syntax tree *)
(* and the analysis returned                                               *)

\* the statements of the analysed handler, in source order
HandlerStatements == Get(fnNode).body.kids

\* statement s is `const { ... } = req.<usage>;`
Destructures(s, usage) ==
    /\ s.type = "VariableDeclaration"
    /\ s.kids[1].kids[1].type = "ObjectPattern"
    /\ s.kids[1].kids[2] = Member(Id(<<"r", "e", "q">>), usage)

\* C21: when a handler destructures fields from req.body or req.query
\* (const {a, b} = req.body), every destructured field name is recorded in
\* the corresponding requestUsage list of the function.
C21_DestructuredFieldsRecorded ==
    apc = "returned" =>
        \A i \in 1..Len(HandlerStatements) :
            /\ Destructures(HandlerStatements[i], <<"b", "o", "d", "y">>) =>
                   \A k \in 1..Len(HandlerStatements[i].kids[1].kids[1].kids) :
                       HandlerStatements[i].kids[1].kids[1].kids[k].kids[1].name
                           \in Range(Get(fnAnalysis).requestUsage.body)
            /\ Destructures(HandlerStatements[i], <<"q", "u", "e", "r", "y">>) =>
                   \A k \in 1..Len(HandlerStatements[i].kids[1].kids[1].kids) :
                       HandlerStatements[i].kids[1].kids[1].kids[k].kids[1].name
                           \in Range(Get(fnAnalysis).requestUsage.query)

\* the request sub-objects that node n reads as req.Y or request.Y with no
\* further field; inner tells that n is itself the object of a member access
RECURSIVE WholeObjectReads(_, _)
WholeObjectReads(n, inner) ==
    (IF /\ n.type = "MemberExpression"
        /\ ~inner
        /\ n.kids[1].type = "Identifier"
        /\ n.kids[1].name \in {<<"r", "e", "q">>, <<"r", "e", "q", "u", "e", "s", "t">>}
        /\ n.kids[2].name \in {<<"b", "o", "d", "y">>, <<"q", "u", "e", "r", "y">>, <<"p", "a", "r", "a", "m", "s">>, <<"h", "e", "a", "d", "e", "r", "s">>}
     THEN {n.kids[2].name}
     ELSE {})
    \cup UNION {WholeObjectReads(n.kids[k], n.type = "MemberExpression" /\ k = 1) :
                   k \in 1..Len(n.kids)}

\* C22: for each Y in {body, query, params, headers}, the sentinel '__ALL__'
\* is recorded into requestUsage.Y exactly when the handler reads req.Y (or
\* request.Y) with no further field; a two-level access req.Y.Z records Z
\* without recording the sentinel.
C22_SentinelExactlyForWholeObject ==
    apc = "returned" =>
        /\ ALL \in Range(Get(fnAnalysis).requestUsage.body)
               <=> <<"b", "o", "d", "y">> \in WholeObjectReads(Get(fnNode).body, FALSE)
        /\ ALL \in Range(Get(fnAnalysis).requestUsage.query)
               <=> <<"q", "u", "e", "r", "y">> \in WholeObjectReads(Get(fnNode).body, FALSE)
        /\ ALL \in Range(Get(fnAnalysis).requestUsage.params)
               <=> <<"p", "a", "r", "a", "m", "s">> \in WholeObjectReads(Get(fnNode).body, FALSE)
        /\ ALL \in Range(Get(fnAnalysis).requestUsage.headers)
               <=> <<"h", "e", "a", "d", "e", "r", "s">> \in WholeObjectReads(Get(fnNode).body, FALSE)

\* statement s is `res.json(<argument>);`
IsJson(s) ==
    /\ s.type = "ExpressionStatement"
    /\ s.kids[1].type = "CallExpression"
    /\ s.kids[1].kids[1] = Member(Id(<<"r", "e", "s">>), <<"j", "s", "o", "n">>)

\* statement s is `res.status(<code>).json(<argument>);`
IsStatusJson(s) ==
    /\ s.type = "ExpressionStatement"
    /\ s.kids[1].type = "CallExpression"
    /\ s.kids[1].kids[1].type = "MemberExpression"
    /\ s.kids[1].kids[1].kids[2].name = <<"j", "s", "o", "n">>
    /\ s.kids[1].kids[1].kids[1].type = "CallExpression"
    /\ s.kids[1].kids[1].kids[1].kids[1] = Member(Id(<<"r", "e", "s">>), <<"s", "t", "a", "t", "u", "s">>)

\* the indexes of the statements that send a JSON response, in source order
Responses ==
    SelectSeq([i \in 1..Len(HandlerStatements) |-> i],
              LAMBDA i : IsJson(HandlerStatements[i]) \/ IsStatusJson(HandlerStatements[i]))

\* C23: for a handler holding res.status(c).json(arg) with a numeric
\* literal c, statusCodes contains c and structures holds, at the place of
\* the call in source order, the shape of arg with the field status: c.
C23_ChainedStatusTagsStructure ==
    apc = "returned" =>
        /\ Len(Get(fnAnalysis).responseUsage.structures) = Len(Responses)
        /\ \A k \in 1..Len(Responses) :
               IsStatusJson(HandlerStatements[Responses[k]]) =>
                   /\ HandlerStatements[Responses[k]].kids[1].kids[1].kids[1].kids[2].value
                          \in Range(Get(fnAnalysis).responseUsage.statusCodes)
                   /\ HandlerStatements[Responses[k]].kids[1].kids[2].type = "ObjectExpression" =>
                          /\ Get(fnAnalysis).responseUsage.structures[k].typeof = "object"
                          /\ [key |-> <<"s", "t", "a", "t", "u", "s">>,
                              value |-> HandlerStatements[Responses[k]]
                                            .kids[1].kids[1].kids[1].kids[2].value]
                                 \in Range(Get(fnAnalysis).responseUsage.structures[k].entries)
                          /\ \A e \in Range(_extractObjectStructure(
                                                Some(HandlerStatements[Responses[k]].kids[1].kids[2])).entries) :
                                 e.key # <<"s", "t", "a", "t", "u", "s">> =>
                                     e \in Range(Get(fnAnalysis).responseUsage.structures[k].entries)

\* the shape a property value is to be given: a literal its value, an
\* interpolated string 'template_string', an identifier x 'var:x', an object
\* literal a nested structure, an array literal the array of its elements'
\* shapes, anything else 'complex_expression'
RECURSIVE Abstraction(_)
Abstraction(n) ==
    CASE n.type \in {"StringLiteral", "NumericLiteral", "BooleanLiteral"} -> n.value
      [] n.type = "TemplateLiteral" -> [typeof |-> "string", text |-> <<"t", "e", "m", "p", "l", "a", "t", "e", "_", "s", "t", "r", "i", "n", "g">>]
      [] n.type = "Identifier" -> [typeof |-> "string", text |-> <<"v", "a", "r", ":">> \o n.name]
      [] n.type = "ObjectExpression" ->
             [typeof |-> "object",
              entries |-> [k \in 1..Len(n.kids) |->
                              IF n.kids[k].type = "SpreadElement"
                              THEN [key |-> <<".", ".", ".", "s", "p", "r", "e", "a", "d">>,
                                    value |-> [typeof |-> "string", text |-> <<".", ".", ".", "s", "p", "r", "e", "a", "d">>]]
                              ELSE [key |-> n.kids[k].kids[1].name,
                                    value |-> Abstraction(n.kids[k].kids[2])]]]
      [] n.type = "ArrayExpression" ->
             [typeof |-> "array",
              elements |-> [k \in 1..Len(n.kids) |-> Abstraction(n.kids[k])]]
      [] OTHER -> [typeof |-> "string", text |-> <<"c", "o", "m", "p", "l", "e", "x", "_", "e", "x", "p", "r", "e", "s", "s", "i", "o", "n">>]

\* C24: the shape recorded for an object literal handed to res.json gives
\* each property the abstraction of its value (literal, 'template_string',
\* 'var:x', nested structure, array of abstractions, 'complex_expression')
\* and each spread element the entry '...spread': '...spread'.  A property
\* whose value is the null literal is left aside.
C24_ShapeOfObjectLiteral ==
    apc = "returned" =>
        \A k \in 1..Len(Responses) :
            /\ IsJson(HandlerStatements[Responses[k]])
            /\ HandlerStatements[Responses[k]].kids[1].kids[2].type = "ObjectExpression"
            => \A e \in Range(Abstraction(HandlerStatements[Responses[k]].kids[1].kids[2]).entries) :
                   \/ e.value = [typeof |-> "string", text |-> <<"c", "o", "m", "p", "l", "e", "x", "_", "e", "x", "p", "r", "e", "s", "s", "i", "o", "n">>]
                      /\ \E p \in Range(HandlerStatements[Responses[k]].kids[1].kids[2].kids) :
                             /\ p.type = "ObjectProperty"
                             /\ p.kids[1].name = e.key
                             /\ p.kids[2].type = "NullLiteral"
                   \/ e \in Range(Get(fnAnalysis).responseUsage.structures[k].entries)

-----------------------------------------------------------------------------
(* Documentation records handed to the enhancer *)

EnhancerDoc(description, parameters, aiEnhanced) ==
    [description |-> description, parameters |-> parameters,
     edgeCases |-> None, validationRules |-> None,
     aiEnhanced |-> aiEnhanced, aiEnhancementError |-> None]

EnhancerDocs ==
    { EnhancerDoc(d, p, None) :
        d \in {Some(<<>>), Some(<<" ">>), Some(<<"L", "i", "s", "t", "s", " ", "t", "h", "e", " ", "u", "s", "e", "r", "s">>)},
        p \in {<<>>, <<<<"i", "d">>>>} }

\* the objects doc.examples may refer to: what the builder makes
\* ({ request: null, response: null }) and what a schema file or an earlier
\* run may have left there
ExampleObjects ==
    { [request |-> q, response |-> r] :
        q \in {None, Some(<<"s", "t", "o", "r", "e", "d">>)},
        r \in {None, Some(<<>>), Some(<<<<"s", "t", "o", "r", "e", "d">>>>)} }

-----------------------------------------------------------------------------
(* GeminiEnhancer.enhanceEndpoint and _callGeminiWithRetry.                *)
(*                                                                         *)
(* A doc is the record of its own fields [description, parameters,         *)
(* edgeCases, validationRules, aiEnhanced, aiEnhancementError]; a field    *)
(* that is absent is None.  Its field examples is a reference: the object  *)
(* it refers to is the variable examples, which doc, the copy { ...doc }   *)
(* and whatever enhanceEndpoint returns all share.  aiEnhancementDate is   *)
(* left out.  A text the model generated is <<"g", "e", "n", "e", "r", "a", "t", "e", "d">>.                   *)

\* the enhancer a call is made on: constructed without an API key, or with
\* one, maxRetries and retryDelay being public properties
MaxRetries == 4

Enhancers ==
    {[enabled |-> FALSE, maxRetries |-> None, retryDelay |-> None]}
    \cup {[enabled |-> TRUE, maxRetries |-> Some(m), retryDelay |-> Some(d)] :
             m \in 0..MaxRetries, d \in {1000}}

\* the generation steps of enhanceEndpoint, in order
Steps == <<"description", "request", "response", "edgeCases", "validationRules">>

\* the condition under which enhanceEndpoint takes step k for doc, the
\* object doc.examples refers to being x
Due(k, doc, x) ==
    CASE Steps[k] = "description" ->
             \/ doc.description = None
             \/ \A i \in 1..Len(Get(doc.description)) : Get(doc.description)[i] = " "
      [] Steps[k] = "request" -> Len(doc.parameters) > 0 /\ x.request = None
      [] Steps[k] = "response" -> x.response = None \/ Get(x.response) = <<>>
      [] OTHER -> TRUE

\* the first step after step k that is due, Len(Steps) + 1 when none is
RECURSIVE StepAfter(_, _, _)
StepAfter(k, doc, x) ==
    IF k + 1 > Len(Steps) \/ Due(k + 1, doc, x) THEN k + 1
    ELSE StepAfter(k + 1, doc, x)

\* enhanceEndpoint(doc), up to its first await
EnhanceEndpoint ==
    /\ epc = "idle"
    /\ \E e \in Enhancers, doc \in EnhancerDocs, x \in ExampleObjects :
           /\ enabled' = e.enabled
           /\ maxRetries' = e.maxRetries
           /\ retryDelay' = e.retryDelay
           /\ givenDoc' = Some(doc)
           /\ examples' = x
           /\ givenExamples' = x
           /\ IF ~e.enabled
              THEN /\ settledWith' = Some(doc)
                   /\ epc' = "returned"
                   /\ UNCHANGED <<enhanced, step>>
              ELSE /\ enhanced' = Some(doc)
                   /\ step' = StepAfter(0, doc, x)
                   /\ epc' = "running"
                   /\ UNCHANGED settledWith
    /\ UNCHANGED <<attempt, invoked, waits>>
    /\ UNCHANGED <<analyzeVars, detectVars, bumpVars, pathVars, walkVars, buildVars>>
    /\ UNCHANGED <<astVars, batchVars, dbVars>>

\* generateContent resolves and response.text() returns: _callGeminiWithRetry
\* returns, the step assigns what it made of the text and enhanceEndpoint
\* goes on to the next step that is due (a new _callGeminiWithRetry, with
\* its own attempt and waits), or returns enhanced
CallSucceeds ==
    /\ epc = "running"
    /\ attempt <= Get(maxRetries)
    /\ examples' =
           CASE Steps[step] = "request" -> [examples EXCEPT !.request = Some(<<"g", "e", "n", "e", "r", "a", "t", "e", "d">>)]
             [] Steps[step] = "response" ->
                    [examples EXCEPT !.response = Some(<<<<"g", "e", "n", "e", "r", "a", "t", "e", "d">>>>)]
             [] OTHER -> examples
    /\ \E copy \in {CASE Steps[step] = "description" ->
                            [Get(enhanced) EXCEPT !.description = Some(<<"g", "e", "n", "e", "r", "a", "t", "e", "d">>)]
                      [] Steps[step] = "edgeCases" ->
                            [Get(enhanced) EXCEPT !.edgeCases = Some(<<"g", "e", "n", "e", "r", "a", "t", "e", "d">>)]
                      [] Steps[step] = "validationRules" ->
                            [Get(enhanced) EXCEPT !.validationRules = Some(<<"g", "e", "n", "e", "r", "a", "t", "e", "d">>)]
                      [] OTHER -> Get(enhanced)} :
           IF StepAfter(step, Get(givenDoc), examples') > Len(Steps)
           THEN /\ enhanced' = Some([copy EXCEPT !.aiEnhanced = Some(TRUE)])
                /\ settledWith' = enhanced'
                /\ epc' = "returned"
                /\ invoked' = invoked + 1
                /\ UNCHANGED <<step, attempt, waits>>
           ELSE /\ enhanced' = Some(copy)
                /\ step' = StepAfter(step, Get(givenDoc), examples')
                /\ attempt' = 1
                /\ invoked' = 0
                /\ waits' = <<>>
                /\ UNCHANGED <<settledWith, epc>>
    /\ UNCHANGED <<givenDoc, givenExamples>>
    /\ UNCHANGED <<analyzeVars, detectVars, bumpVars, pathVars, walkVars, buildVars>>
    /\ UNCHANGED <<astVars, enhancerVars, batchVars, dbVars>>

\* generateContent rejects, or reading the response throws: the catch of
\* the loop body, with its wait, and attempt++
CallFails ==
    /\ epc = "running"
    /\ attempt <= Get(maxRetries)
    /\ invoked' = invoked + 1
    /\ waits' = IF attempt < Get(maxRetries)
                THEN Append(waits, Get(retryDelay) * attempt)
                ELSE waits
    /\ attempt' = attempt + 1
    /\ UNCHANGED <<givenDoc, examples, givenExamples, enhanced, step, settledWith, epc>>
    /\ UNCHANGED <<analyzeVars, detectVars, bumpVars, pathVars, walkVars, buildVars>>
    /\ UNCHANGED <<astVars, enhancerVars, batchVars, dbVars>>

\* the loop of _callGeminiWithRetry is over: it throws, and the catch of
\* enhanceEndpoint returns { ...doc, aiEnhanced: false, aiEnhancementError }
CallThrows ==
    /\ epc = "running"
    /\ attempt > Get(maxRetries)
    /\ settledWith' = Some([Get(givenDoc) EXCEPT !.aiEnhanced = Some(FALSE),
                                                 !.aiEnhancementError = Some("message")])
    /\ epc' = "returned"
    /\ UNCHANGED <<givenDoc, examples, givenExamples, enhanced, step, attempt, invoked, waits>>
    /\ UNCHANGED <<analyzeVars, detectVars, bumpVars, pathVars, walkVars, buildVars>>
    /\ UNCHANGED <<astVars, enhancerVars, batchVars, dbVars>>

NextEnhance == EnhanceEndpoint \/ CallSucceeds \/ CallFails \/ CallThrows

SpecEnhance == Constructed /\ [][NextEnhance]_vars

-----------------------------------------------------------------------------
(* Properties of enhanceEndpoint and _callGeminiWithRetry *)

\* C26: after the k-th consecutive failed attempt (k < maxRetries)
\* _callGeminiWithRetry waits retryDelay * 2^(k-1) before the next attempt,
\* for every configured maxRetries.
C26_BackoffDoubles ==
    \A k \in 1..Len(waits) : waits[k] = Get(retryDelay) * 2^(k - 1)

\* enhanceEndpoint has returned through its catch
Failed ==
    /\ epc = "returned"
    /\ enabled
    /\ Get(settledWith).aiEnhanced = Some(FALSE)

\* C28: for one prompt _callGeminiWithRetry invokes the model at most
\* maxRetries times and throws only after maxRetries failed attempts, with
\* no wait after the last; enhanceEndpoint then resolves to the original
\* fields of doc with aiEnhanced = false and aiEnhancementError set.
C28_RetryBudgetAndOriginalOnFailure ==
    /\ epc = "running" => invoked <= Get(maxRetries)
    /\ epc = "returned" => IsSome(settledWith)
    /\ Failed =>
           /\ invoked = Get(maxRetries)
           /\ Len(waits) = IF Get(maxRetries) = 0 THEN 0 ELSE Get(maxRetries) - 1
           /\ IsSome(Get(settledWith).aiEnhancementError)
           /\ Get(settledWith).description = Get(givenDoc).description
           /\ Get(settledWith).parameters = Get(givenDoc).parameters
           /\ Get(settledWith).edgeCases = Get(givenDoc).edgeCases
           /\ Get(settledWith).validationRules = Get(givenDoc).validationRules
           /\ examples = givenExamples

\* C30: enhanceEndpoint leaves its input record, the nested examples object
\* included, unchanged in every outcome (disabled, success, failure).
C30_InputUnchanged ==
    epc = "returned" => examples = givenExamples

-----------------------------------------------------------------------------
(* GeminiEnhancer.enhanceBatch.                                            *)
(*                                                                         *)
(* An element of docs is an option, None standing for null.  A unit of     *)
(* work is the promise batch.map makes for one doc: [index, status, value] *)
(* with index the place of the doc in docs (from 1), status "pending",     *)
(* "fulfilled" or "rejected", and value the option it is fulfilled with.   *)

MaxBatchDocs == 3
MaxConcurrency == 3

\* the lists handed to enhanceBatch
BatchLists ==
    UNION {[1..n -> { None,
                      Some(EnhancerDoc(Some(<<"a">>), <<>>, None)),
                      Some(EnhancerDoc(Some(<<"b">>), <<>>, Some(TRUE))) }] :
              n \in 0..MaxBatchDocs}

\* the places in docs of docs.slice(i, i + width), docs having n elements
BatchIndexesOverlapping(i, width, n) ==
    [k \in 1..(IF i + width + 1 <= n THEN width + 1 ELSE n - i) |-> i + k]

BatchIndexes(i, width, n) ==
    [k \in 1..(IF i + width <= n THEN width ELSE n - i) |-> i + k]

\* enhanceBatch(docs, { concurrency, skipExisting }), up to the loop
EnhanceBatch ==
    /\ qpc = "idle"
    /\ \E e \in Enhancers, docs \in BatchLists, width \in 0..MaxConcurrency,
          skip \in BOOLEAN :
           /\ e.maxRetries \in {None, Some(3)}
           /\ enabled' = e.enabled
           /\ maxRetries' = e.maxRetries
           /\ retryDelay' = e.retryDelay
           /\ batchDocs' = docs
           /\ concurrency' = width
           /\ skipExisting' = skip
           /\ handed' = [i \in 1..Len(docs) |-> 0]
    /\ cursor' = 0
    /\ units' = <<>>
    /\ batchOutput' = <<>>
    /\ qpc' = "loop"
    /\ UNCHANGED <<analyzeVars, detectVars, bumpVars, pathVars, walkVars, buildVars>>
    /\ UNCHANGED <<astVars, enhanceVars, dbVars>>

\* i < docs.length: batch.map makes the promises of the batch, one doc
\* after the other.  doc.aiEnhanced on a null doc throws out of map, the
\* promises made before it being left on their own
StartBatch ==
    /\ qpc = "loop"
    /\ cursor < Len(batchDocs)
    /\ \E batch \in {BatchIndexes(cursor, concurrency, Len(batchDocs))} :
       \E made \in {IF \E k \in 1..Len(batch) : skipExisting /\ batchDocs[batch[k]] = None
                    THEN (CHOOSE k \in 1..Len(batch) :
                              /\ skipExisting /\ batchDocs[batch[k]] = None
                              /\ \A j \in 1..(k - 1) : batchDocs[batch[j]] # None) - 1
                    ELSE Len(batch)} :
           /\ units' = [k \in 1..made |->
                           IF skipExisting /\ Get(batchDocs[batch[k]]).aiEnhanced = Some(TRUE)
                           THEN [index |-> batch[k], status |-> "fulfilled",
                                 value |-> batchDocs[batch[k]]]
                           ELSE [index |-> batch[k], status |-> "pending", value |-> None]]
           /\ handed' = [i \in 1..Len(batchDocs) |->
                            IF \E k \in 1..made : units'[k].index = i
                                                  /\ units'[k].status = "pending"
                            THEN handed[i] + 1 ELSE handed[i]]
           /\ qpc' = IF made < Len(batch) THEN "threw" ELSE "awaiting"
    /\ UNCHANGED <<batchDocs, concurrency, skipExisting, cursor, batchOutput>>
    /\ UNCHANGED <<analyzeVars, detectVars, bumpVars, pathVars, walkVars, buildVars>>
    /\ UNCHANGED <<astVars, enhancerVars, enhanceVars, dbVars>>

\* one enhanceEndpoint(doc) settles: it rejects for a null doc (doc.method),
\* resolves to doc itself when the enhancer is disabled, and otherwise to
\* the enhanced copy or to the copy its catch makes
Settle ==
    /\ qpc \in {"awaiting", "threw"}
    /\ \E k \in 1..Len(units) :
           /\ units[k].status = "pending"
           /\ \E settled \in
                  IF batchDocs[units[k].index] = None
                  THEN {[index |-> units[k].index, status |-> "rejected", value |-> None]}
                  ELSE {[index |-> units[k].index, status |-> "fulfilled", value |-> Some(v)] :
                           v \in IF ~enabled THEN {Get(batchDocs[units[k].index])}
                                 ELSE {[Get(batchDocs[units[k].index]) EXCEPT
                                           !.aiEnhanced = Some(TRUE)],
                                       [Get(batchDocs[units[k].index]) EXCEPT
                                           !.aiEnhanced = Some(FALSE),
                                           !.aiEnhancementError = Some("message")]}} :
                  units' = [units EXCEPT ![k] = settled]
    /\ UNCHANGED <<batchDocs, concurrency, skipExisting, cursor, batchOutput, handed, qpc>>
    /\ UNCHANGED <<analyzeVars, detectVars, bumpVars, pathVars, walkVars, buildVars>>
    /\ UNCHANGED <<astVars, enhancerVars, enhanceVars, dbVars>>

\* Promise.allSettled resolves: batchResults.forEach pushes the value of a
\* fulfilled promise and batch[index] for a rejected one; then the test of
\* the delay, or i += concurrency straight away
CollectBatch ==
    /\ qpc = "awaiting"
    /\ \A k \in 1..Len(units) : units[k].status # "pending"
    /\ batchOutput' = batchOutput \o
                      [k \in 1..Len(units) |->
                          IF units[k].status = "fulfilled" THEN units[k].value
                          ELSE batchDocs[units[k].index]]
    /\ units' = <<>>
    /\ IF cursor + concurrency < Len(batchDocs)
       THEN qpc' = "delaying" /\ UNCHANGED cursor
       ELSE qpc' = "loop" /\ cursor' = cursor + concurrency
    /\ UNCHANGED <<batchDocs, concurrency, skipExisting, handed>>
    /\ UNCHANGED <<analyzeVars, detectVars, bumpVars, pathVars, walkVars, buildVars>>
    /\ UNCHANGED <<astVars, enhancerVars, enhanceVars, dbVars>>

\* await this._delay(500) is over; i += concurrency
DelayBetweenBatches ==
    /\ qpc = "delaying"
    /\ cursor' = cursor + concurrency
    /\ qpc' = "loop"
    /\ UNCHANGED <<batchDocs, concurrency, skipExisting, units, batchOutput, handed>>
    /\ UNCHANGED <<analyzeVars, detectVars, bumpVars, pathVars, walkVars, buildVars>>
    /\ UNCHANGED <<astVars, enhancerVars, enhanceVars, dbVars>>

\* the loop is over: results.filter(r => r.aiEnhanced) throws on a null
\* result, otherwise return results
ReturnBatch ==
    /\ qpc = "loop"
    /\ cursor >= Len(batchDocs)
    /\ qpc' = IF \E k \in 1..Len(batchOutput) : batchOutput[k] = None
              THEN "threw" ELSE "returned"
    /\ UNCHANGED <<batchDocs, concurrency, skipExisting, cursor, units, batchOutput, handed>>
    /\ UNCHANGED <<analyzeVars, detectVars, bumpVars, pathVars, walkVars, buildVars>>
    /\ UNCHANGED <<astVars, enhancerVars, enhanceVars, dbVars>>

NextBatch ==
    \/ EnhanceBatch
    \/ StartBatch
    \/ Settle
    \/ CollectBatch
    \/ DelayBetweenBatches
    \/ ReturnBatch

SpecBatch == Constructed /\ [][NextBatch]_vars

\* the event loop runs every continuation that is ready, the timer of
\* _delay fires, and a call to the model settles one way or the other
SpecBatchFair == SpecBatch /\ WF_vars(NextBatch)

-----------------------------------------------------------------------------
(* Properties of enhanceBatch *)

\* the units of work in flight
InFlight == {k \in 1..Len(units) : units[k].status = "pending"}

\* C25: enhanceBatch never has more than concurrency enhanceEndpoint units
\* in flight; the units in flight all belong to the batch at the loop
\* index, so a batch starts only after the one before has settled; and each
\* input is handed to at most one unit.
C25_BoundedInFlight ==
    /\ Cardinality(InFlight) <= concurrency
    /\ \A k \in InFlight :
           units[k].index \in (cursor + 1)..(cursor + concurrency)
    /\ \A i \in 1..Len(handed) : handed[i] <= 1

\* C25 witness: in a batch after the first, as many units are in flight as
\* concurrency allows.
C25_Witness ==
    /\ cursor > 0
    /\ concurrency >= 1
    /\ Cardinality(InFlight) = concurrency

\* C29: for every list of Documentation records and every concurrency >= 0
\* enhanceBatch terminates and returns one result per input, in input
\* order (the result at place i is made from docs[i]).
C29_TerminatesWithOneResultPerInput ==
    (qpc = "loop" /\ \A i \in 1..Len(batchDocs) : batchDocs[i] # None)
        ~> /\ qpc = "returned"
           /\ Len(batchOutput) = Len(batchDocs)
           /\ \A i \in 1..Len(batchDocs) :
                  Get(batchOutput[i]).description = Get(batchDocs[i]).description

-----------------------------------------------------------------------------
(* DatabaseConnection: connect, disconnect and the connection events.      *)
(* One call is in progress at a time; dbOutcomes records how the calls     *)
(* ended and bounds their number.                                          *)

MaxDbCalls == 4

\* connect(uri), up to await mongoose.connect(...)
Connect ==
    /\ cpc # "connecting"
    /\ Len(dbOutcomes) < MaxDbCalls
    /\ IF isConnected
       THEN /\ cpc' = "returned"
            /\ connectCalls' = 0
            /\ dbOutcomes' = Append(dbOutcomes, "already connected")
       ELSE /\ cpc' = "connecting"
            /\ connectCalls' = 1
            /\ UNCHANGED dbOutcomes
    /\ UNCHANGED <<isConnected, connection>>
    /\ UNCHANGED <<analyzeVars, detectVars, bumpVars, pathVars, walkVars, buildVars>>
    /\ UNCHANGED <<astVars, enhancerVars, enhanceVars, batchVars>>

\* mongoose.connect resolves: the rest of the try block
ConnectResolves ==
    /\ cpc = "connecting"
    /\ connection' = Some("mongoose.connection")
    /\ isConnected' = TRUE
    /\ cpc' = "returned"
    /\ dbOutcomes' = Append(dbOutcomes, "connected")
    /\ UNCHANGED connectCalls
    /\ UNCHANGED <<analyzeVars, detectVars, bumpVars, pathVars, walkVars, buildVars>>
    /\ UNCHANGED <<astVars, enhancerVars, enhanceVars, batchVars>>

\* mongoose.connect rejects: the catch block logs and rethrows
ConnectRejects ==
    /\ cpc = "connecting"
    /\ cpc' = "threw"
    /\ dbOutcomes' = Append(dbOutcomes, "failed to connect")
    /\ UNCHANGED <<isConnected, connection, connectCalls>>
    /\ UNCHANGED <<analyzeVars, detectVars, bumpVars, pathVars, walkVars, buildVars>>
    /\ UNCHANGED <<astVars, enhancerVars, enhanceVars, batchVars>>

\* disconnect(); mongoose.disconnect() resolves or rejects
Disconnect ==
    /\ cpc # "connecting"
    /\ Len(dbOutcomes) < MaxDbCalls
    /\ IF ~isConnected
       THEN /\ dbOutcomes' = Append(dbOutcomes, "not connected")
            /\ UNCHANGED isConnected
       ELSE \E resolves \in BOOLEAN :
                /\ isConnected' = ~resolves
                /\ dbOutcomes' = Append(dbOutcomes, IF resolves THEN "disconnected"
                                                    ELSE "failed to disconnect")
    /\ UNCHANGED <<connection, connectCalls, cpc>>
    /\ UNCHANGED <<analyzeVars, detectVars, bumpVars, pathVars, walkVars, buildVars>>
    /\ UNCHANGED <<astVars, enhancerVars, enhanceVars, batchVars>>

\* the 'error' or 'disconnected' handler registered by connect runs
ConnectionEvent ==
    /\ IsSome(connection)
    /\ isConnected
    /\ isConnected' = FALSE
    /\ UNCHANGED <<connection, connectCalls, dbOutcomes, cpc>>
    /\ UNCHANGED <<analyzeVars, detectVars, bumpVars, pathVars, walkVars, buildVars>>
    /\ UNCHANGED <<astVars, enhancerVars, enhanceVars, batchVars>>

NextConnect ==
    \/ Connect
    \/ ConnectResolves
    \/ ConnectRejects
    \/ Disconnect
    \/ ConnectionEvent

SpecConnect == Constructed /\ [][NextConnect]_vars

-----------------------------------------------------------------------------
(* Properties of DatabaseConnection.connect *)

\* C27: when a connection attempt fails, the connection is attempted again
\* before connect() reports failure to its caller, and isConnected stays
\* false until an attempt succeeds.
C27_ConnectRetriesBeforeFailing ==
    /\ cpc \in {"connecting", "threw"} => ~isConnected
    /\ cpc = "threw" => connectCalls >= 2

====
